---- MODULE Spec2Model ----
(***************************************************************************)
(* A model of the Confuc-IO compiler: the Language Definition tables       *)
(* (confucio_mappings.py), the semantic analyzer (confucio_semantic.py),   *)
(* the LLVM IR code generator and its AOT back end (confucio_codegen.py)   *)
(* and the command line driver (cli.py).                                   *)
(***************************************************************************)
EXTENDS Integers, Sequences, FiniteSets, TLC

VARIABLES
    ast,        \* the Program handed to the analyzer and the generator
    pc,         \* position of the compilation in its phases
    analyzer,   \* the SemanticAnalyzer object (symbol table, flags, error)
    codegen,    \* the CodeGenerator object (module, builder, maps, error)
    lookup,     \* one Language Definition query: category, token, results
    cli,        \* one run of cli.main: arguments, position, phases, status
    files,      \* the files a run has written and not removed
    jit,        \* the outcome of execute(): status and returned value
    regenerated \* a second CodeGenerator, given the same Program

vars == <<ast, pc, analyzer, codegen, lookup, cli, files, jit, regenerated>>

(***************************************************************************)
(* Python dictionaries.  A dict display or comprehension is the sequence   *)
(* of its <<key, value>> items in evaluation order; a later item with an   *)
(* equal key replaces the earlier one.                                     *)
(***************************************************************************)
NotFound == "<None>"

DictKeys(items) == { items[i][1] : i \in DOMAIN items }

DictHas(items, k) == k \in DictKeys(items)

\* dict.get(k): the value stored last for k, None when absent
DictGet(items, k) ==
    IF DictHas(items, k)
    THEN LET last == CHOOSE i \in DOMAIN items :
                         /\ items[i][1] = k
                         /\ \A j \in DOMAIN items : items[j][1] = k => j <= i
         IN  items[last][2]
    ELSE NotFound

\* value = <call>; <rest>: the statements after an assignment, run on its value
Bind(value, Rest(_)) == Rest(value)

\* {v: k for k, v in d.items()}
DictInvert(items) == [ i \in DOMAIN items |-> <<items[i][2], items[i][1]>> ]

KEYWORD_MAPPINGS_dup ==
    << <<"func", "if">>, <<"for", "func">>, <<"return", "while">>,
       <<"if", "for">>, <<"*", "if">> >>

KEYWORD_MAPPINGS ==
    << <<"func", "if">>, <<"for", "func">>, <<"return", "while">>,
       <<"if", "for">>, <<"*", "return">> >>

KEYWORD_REVERSE == DictInvert(KEYWORD_MAPPINGS)

TYPE_MAPPINGS ==
    << <<"Float", "int">>, <<"int", "string">>, <<"String", "float">>,
       <<"While", "bool">> >>

TYPE_REVERSE ==
    << <<"int", "Float">>, <<"string", "int">>, <<"float", "String">>,
       <<"bool", "While">> >>

OPERATOR_MAPPINGS_swapped ==
    << <<"/", "-">>, <<"~", "+">>, <<"+", "/">>, <<"Bool", "*">>,
       <<"=", ">">>, <<"#", "<">>, <<"@@", "==">>, <<"@", "=">> >>

\* Bool mapped to an operator generate_binary_op has no branch for
OPERATOR_MAPPINGS_modulo ==
    << <<"/", "+">>, <<"~", "-">>, <<"+", "/">>, <<"Bool", "%">>,
       <<"=", ">">>, <<"#", "<">>, <<"@@", "==">>, <<"@", "=">> >>

OPERATOR_MAPPINGS ==
    << <<"/", "+">>, <<"~", "-">>, <<"+", "/">>, <<"Bool", "*">>,
       <<"=", ">">>, <<"#", "<">>, <<"@@", "==">>, <<"@", "=">> >>

OPERATOR_REVERSE == DictInvert(OPERATOR_MAPPINGS)

DELIMITER_MAPPINGS ==
    << <<"{", "(">>, <<"]", ")">>, <<"(", "[">>, <<"}", "]">>,
       <<"[", "{">>, <<")", "}">> >>

DELIMITER_REVERSE == DictInvert(DELIMITER_MAPPINGS)

MAIN_FUNCTION_NAME == "side"

Categories == {"keyword", "type", "operator", "delimiter"}

Forward(category) ==
    CASE category = "keyword"   -> KEYWORD_MAPPINGS
      [] category = "type"      -> TYPE_MAPPINGS
      [] category = "operator"  -> OPERATOR_MAPPINGS
      [] category = "delimiter" -> DELIMITER_MAPPINGS

Reverse(category) ==
    CASE category = "keyword"   -> KEYWORD_REVERSE
      [] category = "type"      -> TYPE_REVERSE
      [] category = "operator"  -> OPERATOR_REVERSE
      [] category = "delimiter" -> DELIMITER_REVERSE

\* every token that occurs in a table, as a key or as a value
Tokens ==
    UNION { DictKeys(Forward(c)) \cup DictKeys(Reverse(c)) : c \in Categories }

\* no query under way
LookupIdle == [pc |-> "idle", category |-> "keyword", token |-> NotFound,
               fwd |-> NotFound, rev |-> NotFound]

(***************************************************************************)
(* The AST (confucio_ast.py).  A node is a record whose kind is its class  *)
(* name; an absent Optional field holds None.  The builder sets no line    *)
(* attribute on any node, so getattr(node, 'line', 0) is 0 and             *)
(* Parameter.line keeps its default.                                       *)
(***************************************************************************)
None == [kind |-> "None"]

Program(functions) == [functions |-> functions]

FunctionDef(return_type, name, parameters, body) ==
    [kind |-> "FunctionDef", return_type |-> return_type, name |-> name,
     parameters |-> parameters, body |-> body]

Parameter(param_type, name) ==
    [kind |-> "Parameter", param_type |-> param_type, name |-> name, line |-> 0]

VarDeclaration(var_type, name, initializer) ==
    [kind |-> "VarDeclaration", var_type |-> var_type, name |-> name,
     initializer |-> initializer]

Assignment(name, value) == [kind |-> "Assignment", name |-> name, value |-> value]

IfStatement(condition, then_body, else_body) ==
    [kind |-> "IfStatement", condition |-> condition, then_body |-> then_body,
     else_body |-> else_body]

WhileLoop(condition, body) ==
    [kind |-> "WhileLoop", condition |-> condition, body |-> body]

ForLoop(init, condition, update, body) ==
    [kind |-> "ForLoop", init |-> init, condition |-> condition,
     update |-> update, body |-> body]

ReturnStatement(value) == [kind |-> "ReturnStatement", value |-> value]

ExpressionStatement(expression) ==
    [kind |-> "ExpressionStatement", expression |-> expression]

PrintStatement(expressions) ==
    [kind |-> "PrintStatement", expressions |-> expressions]

InputStatement(variable_name) ==
    [kind |-> "InputStatement", variable_name |-> variable_name]

BinaryOp(operator, left, right) ==
    [kind |-> "BinaryOp", operator |-> operator, left |-> left, right |-> right]

UnaryOp(operator, operand) ==
    [kind |-> "UnaryOp", operator |-> operator, operand |-> operand]

Literal(value, literal_type) ==
    [kind |-> "Literal", value |-> value, literal_type |-> literal_type]

Identifier(name) == [kind |-> "Identifier", name |-> name]

FunctionCall(function_name, arguments) ==
    [kind |-> "FunctionCall", function_name |-> function_name,
     arguments |-> arguments]

(***************************************************************************)
(* The symbol table and the semantic analyzer (confucio_semantic.py).      *)
(* The analyzer object is a record; a raised exception is its err field,   *)
(* and every operation is skipped once err is set (the exception unwinds   *)
(* analyze()).  events is the history of the declarations and identifier   *)
(* reads the analysis made, and ever the names it has declared so far.     *)
(***************************************************************************)
EmptyDict == [n \in {} |-> NotFound]

DictPut(d, k, v) == [n \in DOMAIN d \cup {k} |-> IF n = k THEN v ELSE d[n]]

SymbolInfo(name, symbol_type, is_initialized, line) ==
    [name |-> name, type |-> symbol_type, is_initialized |-> is_initialized,
     line |-> line]

SymbolTable == [symbols |-> EmptyDict, functions |-> EmptyDict]

SemanticAnalyzer ==
    [symbol_table |-> SymbolTable, current_function |-> NotFound,
     has_main |-> FALSE, saved_variables |-> EmptyDict,
     err |-> "", events |-> <<>>, ever |-> {}]

Raise(an, error) == [an EXCEPT !.err = error]

Record(an, event) == [an EXCEPT !.events = Append(@, event)]

is_declared(an, name) == name \in DOMAIN an.symbol_table.symbols

is_initialized(an, name) ==
    IF name \notin DOMAIN an.symbol_table.symbols
    THEN FALSE
    ELSE an.symbol_table.symbols[name].is_initialized

get_variable(an, name) == an.symbol_table.symbols[name]

get_function(an, name) ==
    IF name \in DOMAIN an.symbol_table.functions
    THEN an.symbol_table.functions[name]
    ELSE None

\* the entry is written before the name is checked
declare_variable_overwriting(an, name, var_type, initialized, line) ==
    Bind(Record([an EXCEPT !.ever = @ \cup {name},
                           !.symbol_table.symbols =
                               DictPut(@, name,
                                       SymbolInfo(name, var_type, initialized,
                                                  line))],
                [event |-> "declare", namespace |-> "variable",
                 function |-> an.current_function,
                 name |-> name, known |-> name \in an.ever,
                 duplicate |-> is_declared(an, name)]),
         LAMBDA seen :
             IF is_declared(an, name)
             THEN Raise(seen, "DuplicateDeclaration")
             ELSE seen)

declare_variable(an, name, var_type, initialized, line) ==
    Bind(Record([an EXCEPT !.ever = @ \cup {name}],
                [event |-> "declare", namespace |-> "variable",
                 function |-> an.current_function,
                 name |-> name, known |-> name \in an.ever,
                 duplicate |-> is_declared(an, name)]),
         LAMBDA seen :
             IF is_declared(an, name)
             THEN Raise(seen, "DuplicateDeclaration")
             ELSE [seen EXCEPT !.symbol_table.symbols =
                       DictPut(@, name,
                               SymbolInfo(name, var_type, initialized, line))])

\* the flag is flipped instead of set
mark_initialized_flipped(an, name) ==
    IF is_declared(an, name)
    THEN [an EXCEPT !.symbol_table.symbols[name].is_initialized = ~ @]
    ELSE an

mark_initialized(an, name) ==
    IF is_declared(an, name)
    THEN [an EXCEPT !.symbol_table.symbols[name].is_initialized = TRUE]
    ELSE an

\* the message of the duplicate error reads func_def.line, an attribute a
\* FunctionDef does not have: building the message raises AttributeError
declare_function(an, name, func_def) ==
    Bind(Record([an EXCEPT !.ever = @ \cup {name}],
                [event |-> "declare", namespace |-> "function",
                 function |-> an.current_function,
                 name |-> name, known |-> name \in an.ever,
                 duplicate |-> name \in DOMAIN an.symbol_table.functions]),
         LAMBDA seen :
             IF name \in DOMAIN an.symbol_table.functions
             THEN Raise(seen, IF "line" \in DOMAIN func_def
                              THEN "DuplicateDeclaration"
                              ELSE "AttributeError")
             ELSE [seen EXCEPT !.symbol_table.functions =
                       DictPut(@, name, func_def)])

\* Float accepts every type
types_compatible_lenient(expected, actual) ==
    expected = actual \/ expected = "Float"

types_compatible(expected, actual) == expected = actual

\* an expression visitor returns the analyzer and the Confuc-IO type name
Typed(an, type) == [an |-> an, type |-> type]

Failed(an, error) == [an |-> Raise(an, error), type |-> NotFound]

visit_Literal(an, lit) ==
    LET type_map == << <<"int", "Float">>, <<"float", "String">>,
                       <<"string", "int">>, <<"bool", "While">> >>
    IN  Typed(an, IF DictHas(type_map, lit.literal_type)
                  THEN DictGet(type_map, lit.literal_type)
                  ELSE lit.literal_type)

\* the history entry of an identifier read and the type it returns
\* (NotFound when the read raises outcome)
Read(an, ident, outcome, type) ==
    [an |-> Record(IF type = NotFound THEN Raise(an, outcome) ELSE an,
                   [event |-> "read", name |-> ident.name,
                    function |-> an.current_function,
                    declared |-> is_declared(an, ident.name),
                    initialized |-> is_initialized(an, ident.name),
                    outcome |-> outcome]),
     type |-> type]

visit_Identifier_unordered(an, ident) ==
    Bind(IF ~ is_initialized(an, ident.name) THEN "UseBeforeInit"
         ELSE IF ~ is_declared(an, ident.name) THEN "UndeclaredIdentifier"
         ELSE get_variable(an, ident.name).type,
         LAMBDA outcome :
             Read(an, ident, outcome,
                  IF outcome \in {"UseBeforeInit", "UndeclaredIdentifier"}
                  THEN NotFound ELSE outcome))

visit_Identifier(an, ident) ==
    Bind(IF ~ is_declared(an, ident.name) THEN "UndeclaredIdentifier"
         ELSE IF ~ is_initialized(an, ident.name) THEN "UseBeforeInit"
         ELSE get_variable(an, ident.name).type,
         LAMBDA outcome :
             Read(an, ident, outcome,
                  IF outcome \in {"UseBeforeInit", "UndeclaredIdentifier"}
                  THEN NotFound ELSE outcome))

RECURSIVE visit_expression(_, _)
RECURSIVE visit_arguments(_, _, _, _)
RECURSIVE visit_arguments_unchecked(_, _, _, _)

\* every operator returns the type of its left operand, unchecked
visit_BinaryOp_untyped(an, binop) ==
    Bind(visit_expression(an, binop.left), LAMBDA left :
        IF left.an.err # "" THEN left
        ELSE Bind(visit_expression(left.an, binop.right), LAMBDA right :
            IF right.an.err # "" THEN right
            ELSE Typed(right.an, left.type)))

visit_BinaryOp(an, binop) ==
    Bind(visit_expression(an, binop.left), LAMBDA left :
        IF left.an.err # "" THEN left
        ELSE Bind(visit_expression(left.an, binop.right), LAMBDA right :
            IF right.an.err # "" THEN right
            ELSE IF binop.operator \in {"/", "~", "+", "Bool"}
            THEN IF ~ types_compatible(left.type, right.type)
                 THEN Failed(right.an, "TypeMismatch")
                 ELSE Typed(right.an, left.type)
            ELSE IF binop.operator \in {"=", "#", "@@"}
            THEN Typed(right.an, "While")
            ELSE Typed(right.an, left.type)))

\* the arguments are analyzed, their types are not compared
visit_arguments_unchecked(an, arguments, parameters, i) ==
    IF i > Len(arguments) \/ i > Len(parameters)
    THEN an
    ELSE Bind(visit_expression(an, arguments[i]), LAMBDA arg :
             IF arg.an.err # "" THEN arg.an
             ELSE visit_arguments_unchecked(arg.an, arguments, parameters, i + 1))

\* for i, (arg, param) in enumerate(zip(call.arguments, func.parameters))
visit_arguments(an, arguments, parameters, i) ==
    IF i > Len(arguments) \/ i > Len(parameters)
    THEN an
    ELSE Bind(visit_expression(an, arguments[i]), LAMBDA arg :
             IF arg.an.err # "" THEN arg.an
             ELSE IF ~ types_compatible(parameters[i].param_type, arg.type)
             THEN Raise(arg.an, "TypeMismatch")
             ELSE visit_arguments(arg.an, arguments, parameters, i + 1))

visit_FunctionCall(an, call) ==
    Bind(get_function(an, call.function_name), LAMBDA func :
        IF func = None
        THEN Failed(an, "UndeclaredIdentifier")
        ELSE IF Len(call.arguments) # Len(func.parameters)
        THEN Failed(an, "ArityMismatch")
        ELSE Bind(visit_arguments(an, call.arguments, func.parameters, 1),
                  LAMBDA checked :
                      Typed(checked, IF checked.err # "" THEN NotFound
                                     ELSE func.return_type)))

\* visit(): reflective dispatch; a node class without a visit_ method
\* (UnaryOp) raises SemanticError
visit_expression(an, node) ==
    CASE node.kind = "Literal"      -> visit_Literal(an, node)
      [] node.kind = "Identifier"   -> visit_Identifier(an, node)
      [] node.kind = "BinaryOp"     -> visit_BinaryOp(an, node)
      [] node.kind = "FunctionCall" -> visit_FunctionCall(an, node)
      [] OTHER                      -> Failed(an, "NoVisitor")

RECURSIVE visit(_, _)
RECURSIVE visit_body(_, _, _)
RECURSIVE visit_expressions(_, _, _)

RECURSIVE visit_body_all(_, _, _)

\* a loop over the body that an error does not leave
visit_body_all(an, body, i) ==
    IF i > Len(body)
    THEN an
    ELSE visit_body_all(visit(an, body[i]), body, i + 1)

\* for stmt in body: self.visit(stmt)
visit_body(an, body, i) ==
    IF i > Len(body) \/ an.err # ""
    THEN an
    ELSE visit_body(visit(an, body[i]), body, i + 1)

\* for expr in print_stmt.expressions: self.visit(expr)
visit_expressions(an, expressions, i) ==
    IF i > Len(expressions) \/ an.err # ""
    THEN an
    ELSE visit_expressions(visit_expression(an, expressions[i]).an,
                           expressions, i + 1)

\* the name is declared before its initializer is analyzed
visit_VarDeclaration_declared_first(an, decl) ==
    IF ~ DictHas(TYPE_MAPPINGS, decl.var_type)
    THEN Raise(an, "UnknownType")
    ELSE IF decl.initializer # None
    THEN Bind(declare_variable(an, decl.name, decl.var_type, TRUE, 0),
              LAMBDA declared :
         IF declared.err # "" THEN declared
         ELSE Bind(visit_expression(declared, decl.initializer), LAMBDA init :
             IF init.an.err # "" THEN init.an
             ELSE IF ~ types_compatible(decl.var_type, init.type)
             THEN Raise(init.an, "TypeMismatch")
             ELSE init.an))
    ELSE declare_variable(an, decl.name, decl.var_type, FALSE, 0)

visit_VarDeclaration(an, decl) ==
    IF ~ DictHas(TYPE_MAPPINGS, decl.var_type)
    THEN Raise(an, "UnknownType")
    ELSE IF decl.initializer # None
    THEN Bind(visit_expression(an, decl.initializer), LAMBDA init :
             IF init.an.err # "" THEN init.an
             ELSE IF ~ types_compatible(decl.var_type, init.type)
             THEN Raise(init.an, "TypeMismatch")
             ELSE declare_variable(init.an, decl.name, decl.var_type, TRUE, 0))
    ELSE declare_variable(an, decl.name, decl.var_type, FALSE, 0)

visit_Assignment(an, assign) ==
    IF ~ is_declared(an, assign.name)
    THEN Raise(an, "UndeclaredIdentifier")
    ELSE Bind(visit_expression(an, assign.value), LAMBDA value :
             IF value.an.err # "" THEN value.an
             ELSE IF ~ types_compatible(get_variable(value.an, assign.name).type,
                                        value.type)
             THEN Raise(value.an, "TypeMismatch")
             ELSE mark_initialized(value.an, assign.name))

\* the flags set in the branches are dropped after the statement
visit_IfStatement_scoped(an, if_stmt) ==
    Bind(visit_body(visit_body(visit_expression(an, if_stmt.condition).an,
                               if_stmt.then_body, 1),
                    if_stmt.else_body, 1),
         LAMBDA visited :
             IF visited.err # "" THEN visited
             ELSE [visited EXCEPT !.symbol_table = an.symbol_table])

visit_IfStatement(an, if_stmt) ==
    visit_body(visit_body(visit_expression(an, if_stmt.condition).an,
                          if_stmt.then_body, 1),
               if_stmt.else_body, 1)

visit_WhileLoop(an, while_stmt) ==
    visit_body(visit_expression(an, while_stmt.condition).an, while_stmt.body, 1)

visit_ForLoop(an, for_stmt) ==
    Bind(visit(an, for_stmt.init), LAMBDA init :
        IF init.err # "" THEN init
        ELSE Bind(visit_expression(init, for_stmt.condition).an, LAMBDA cond :
            IF cond.err # "" THEN cond
            ELSE visit_body(visit(cond, for_stmt.update), for_stmt.body, 1)))

\* the value is compared with the return type of the enclosing function
visit_ReturnStatement_typed(an, ret_stmt) ==
    IF ret_stmt.value # None
    THEN Bind(visit_expression(an, ret_stmt.value), LAMBDA value :
             IF value.an.err # "" THEN value.an
             ELSE IF ~ types_compatible(
                         get_function(value.an, value.an.current_function)
                             .return_type,
                         value.type)
             THEN Raise(value.an, "TypeMismatch")
             ELSE value.an)
    ELSE an

visit_ReturnStatement(an, ret_stmt) ==
    IF ret_stmt.value # None
    THEN visit_expression(an, ret_stmt.value).an
    ELSE an

visit_PrintStatement(an, print_stmt) ==
    visit_expressions(an, print_stmt.expressions, 1)

visit_InputStatement(an, input_stmt) ==
    IF ~ is_declared(an, input_stmt.variable_name)
    THEN Raise(an, "UndeclaredIdentifier")
    ELSE mark_initialized(an, input_stmt.variable_name)

visit_ExpressionStatement(an, stmt) == visit_expression(an, stmt.expression).an

visit(an, node) ==
    CASE node.kind = "VarDeclaration"      -> visit_VarDeclaration(an, node)
      [] node.kind = "Assignment"          -> visit_Assignment(an, node)
      [] node.kind = "IfStatement"         -> visit_IfStatement(an, node)
      [] node.kind = "WhileLoop"           -> visit_WhileLoop(an, node)
      [] node.kind = "ForLoop"             -> visit_ForLoop(an, node)
      [] node.kind = "ReturnStatement"     -> visit_ReturnStatement(an, node)
      [] node.kind = "PrintStatement"      -> visit_PrintStatement(an, node)
      [] node.kind = "InputStatement"      -> visit_InputStatement(an, node)
      [] node.kind = "ExpressionStatement" -> visit_ExpressionStatement(an, node)
      [] OTHER -> (visit_expression(an, node)).an

RECURSIVE collect_functions(_, _, _)

\* analyze(), first pass: for func in ast.functions
collect_functions(an, functions, i) ==
    IF i > Len(functions) \/ an.err # ""
    THEN an
    ELSE Bind(declare_function(an, functions[i].name, functions[i]),
              LAMBDA declared :
                  IF declared.err # "" THEN declared
                  ELSE IF functions[i].name # MAIN_FUNCTION_NAME
                  THEN collect_functions(declared, functions, i + 1)
                  ELSE IF Len(functions[i].parameters) > 0
                  THEN Raise([declared EXCEPT !.has_main = TRUE],
                             "EntryPointHasParameters")
                  ELSE collect_functions([declared EXCEPT !.has_main = TRUE],
                                         functions, i + 1))

analyze_first_pass_unchecked(an, program) ==
    collect_functions(an, program.functions, 1)

analyze_first_pass(an, program) ==
    Bind(collect_functions(an, program.functions, 1), LAMBDA collected :
        IF collected.err # "" THEN collected
        ELSE IF ~ collected.has_main
        THEN Raise(collected, "MissingEntryPoint")
        ELSE collected)

RECURSIVE declare_parameters(_, _, _)

\* for param in func.parameters: declare_variable(..., initialized=True, ...)
declare_parameters(an, parameters, i) ==
    IF i > Len(parameters) \/ an.err # ""
    THEN an
    ELSE declare_parameters(
             declare_variable(an, parameters[i].name, parameters[i].param_type,
                              TRUE, parameters[i].line),
             parameters, i + 1)

\* analyze_function() up to the loop over the body
analyze_function_enter(an, func) ==
    declare_parameters(
        [an EXCEPT !.current_function = func.name,
                   !.saved_variables = an.symbol_table.symbols],
        func.parameters, 1)

\* the table keeps what the function declared
analyze_function_leave_kept(an) == an

\* analyze_function() after the loop over the body
analyze_function_leave(an) ==
    [an EXCEPT !.symbol_table.symbols = an.saved_variables]

analyze_function(an, func) ==
    Bind(visit_body(analyze_function_enter(an, func), func.body, 1),
         LAMBDA body :
             IF body.err # "" THEN body ELSE analyze_function_leave(body))

RECURSIVE analyze_functions(_, _, _)

\* analyze(), second pass: for func in ast.functions
analyze_functions(an, functions, i) ==
    IF i > Len(functions) \/ an.err # ""
    THEN an
    ELSE analyze_functions(analyze_function(an, functions[i]), functions, i + 1)

analyze(an, program) ==
    analyze_functions(analyze_first_pass(an, program), program.functions, 1)

(***************************************************************************)
(* The code generator (confucio_codegen.py).  The generator object is a    *)
(* record: the llvmlite module (its functions, each a list of basic        *)
(* blocks, and its global string constants), the builder position, the     *)
(* function registry, the per-function variable map and the string         *)
(* counter.  A raised exception is its err field.                          *)
(***************************************************************************)
IntType(bits) == [type |-> "int", bits |-> bits]

DoubleType == [type |-> "double"]

VoidType == [type |-> "void"]

PointerType(pointee) == [type |-> "pointer", pointee |-> pointee]

ArrayType(element, count) == [type |-> "array", element |-> element, count |-> count]

IsPointer(t) == t.type = "pointer"

IsInt(t) == t.type = "int"

\* an operand: a constant, a function argument, a global or the result of
\* an instruction (numbered within its function)
Constant(type, value) == [type |-> type, kind |-> "const", n |-> value]

Argument(type, i) == [type |-> type, kind |-> "arg", n |-> i]

GlobalRef(type, i) == [type |-> type, kind |-> "global", n |-> i]

NoValue == [type |-> VoidType, kind |-> "none", n |-> 0]

\* self.type_map
type_map ==
    << <<"Float", IntType(32)>>, <<"int", PointerType(IntType(8))>>,
       <<"String", DoubleType>>, <<"While", IntType(1)>> >>

\* _declare_stdlib(): the C functions declared in every module
Stdlib == <<"printf", "scanf", "malloc", "strlen", "strcpy", "strcat">>

CodeGenerator ==
    [module |-> [functions |-> <<>>, globals |-> <<>>, declared |-> Stdlib],
     builder |-> [function |-> 0, block |-> 0],
     variables |-> EmptyDict,
     functions |-> EmptyDict,
     string_counter |-> 0,
     has_return |-> FALSE,
     err |-> ""]

GenRaise(g, error) == [g EXCEPT !.err = error]

Value(g, v) == [g |-> g, value |-> v]

GenFailed(g, error) == [g |-> GenRaise(g, error), value |-> NoValue]

\* get_llvm_type raises CodeGenError for a type that is no key of type_map
NoType == [type |-> "<unknown>"]

get_llvm_type(confucio_type) ==
    IF ~ DictHas(type_map, confucio_type)
    THEN NoType
    ELSE DictGet(type_map, confucio_type)

CurrentFunction(g) == g.module.functions[g.builder.function]

CurrentBlock(g) == CurrentFunction(g).blocks[g.builder.block]

\* block.is_terminated
is_terminated(g) == CurrentBlock(g).terminated

\* llvmlite deduplicates a block name within its function: name, name.1, ...
BlockName(function, name) ==
    [name |-> name,
     n |-> Cardinality({ b \in DOMAIN function.blocks :
                           function.blocks[b].name.name = name })]

\* function.append_basic_block(name): the new block's index
append_basic_block(g, name) ==
    LET fn == CurrentFunction(g)
        block == [name |-> BlockName(fn, name), instructions |-> <<>>,
                  terminated |-> FALSE]
    IN  [g EXCEPT !.module.functions[g.builder.function].blocks = Append(@, block)]

LastBlock(g) == Len(CurrentFunction(g).blocks)

position_at_end(g, block) == [g EXCEPT !.builder.block = block]

\* the builder inserts at the end of its block, terminated or not
Insert(g, instruction) ==
    [g EXCEPT !.module.functions[g.builder.function]
                 .blocks[g.builder.block].instructions = Append(@, instruction)]

\* the result of the instruction inserted next
Result(g, type) ==
    [type |-> type, kind |-> "inst", n |-> CurrentFunction(g).values + 1]

\* a value-producing instruction: insert it, number its result
Emit(g, opcode, type, operands, name) ==
    LET numbered == [g EXCEPT !.module.functions[g.builder.function].values = @ + 1]
    IN  Value(Insert(numbered, [opcode |-> opcode, result |-> Result(g, type),
                                operands |-> operands, targets |-> <<>>,
                                name |-> name]),
              Result(g, type))

\* a terminator: llvmlite asserts that the block has none yet
SetTerminatorUnchecked(g, opcode, operands, targets) ==
    [Insert(g, [opcode |-> opcode, result |-> NoValue, operands |-> operands,
                targets |-> targets, name |-> ""])
       EXCEPT !.module.functions[g.builder.function]
                 .blocks[g.builder.block].terminated = TRUE]

SetTerminator(g, opcode, operands, targets) ==
    IF is_terminated(g)
    THEN GenRaise(g, "AssertionError")
    ELSE SetTerminatorUnchecked(g, opcode, operands, targets)

ret(g, value) == SetTerminator(g, "ret", <<value>>, <<>>)

ret_void(g) == SetTerminator(g, "ret void", <<>>, <<>>)

branch(g, target) == SetTerminator(g, "br", <<>>, <<target>>)

cbranch(g, cond, truebr, falsebr) ==
    SetTerminator(g, "cbr", <<cond>>, <<truebr, falsebr>>)

alloca(g, type, name) == Emit(g, "alloca", PointerType(type), <<>>, name)

\* builder.store raises TypeError unless the slot points to the value's type
store(g, value, ptr) ==
    IF ~ IsPointer(ptr.type) \/ ptr.type.pointee # value.type
    THEN GenRaise(g, "TypeError")
    ELSE Emit(g, "store", VoidType, <<value, ptr>>, "").g

load(g, ptr, name) ==
    IF ~ IsPointer(ptr.type)
    THEN GenFailed(g, "TypeError")
    ELSE Emit(g, "load", ptr.type.pointee, <<ptr>>, name)

\* add, sub, mul, sdiv raise ValueError on operands of different types
binop(g, opcode, lhs, rhs, name) ==
    IF lhs.type # rhs.type
    THEN GenFailed(g, "ValueError")
    ELSE Emit(g, opcode, lhs.type, <<lhs, rhs>>, name)

icmp_signed(g, cmpop, lhs, rhs, name) ==
    Emit(g, "icmp " \o cmpop, IntType(1), <<lhs, rhs>>, name)

\* a call to a C library function declared by _declare_stdlib
call_stdlib(g, callee, type, args) ==
    Emit(g, "call " \o callee, type, args, "")

\* the text of a string constant: a format string or a literal's value
Format(text) == [format |-> text]

Text(value) == [literal |-> value]

\* a string counter that all generators share
_get_string_constant_shared(g, s) ==
    LET gvar == [name |-> <<"str", codegen.string_counter
                                   + regenerated.string_counter>>,
                 initializer |-> s]
        made == [g EXCEPT !.string_counter = @ + 1,
                          !.module.globals = Append(@, gvar)]
    IN  Emit(made, "bitcast", PointerType(IntType(8)),
             <<GlobalRef(PointerType(ArrayType(IntType(8), 0)),
                         Len(made.module.globals))>>, "")

_get_string_constant(g, s) ==
    LET gvar == [name |-> <<"str", g.string_counter>>, initializer |-> s]
        made == [g EXCEPT !.string_counter = @ + 1,
                          !.module.globals = Append(@, gvar)]
    IN  Emit(made, "bitcast", PointerType(IntType(8)),
             <<GlobalRef(PointerType(ArrayType(IntType(8), 0)),
                         Len(made.module.globals))>>, "")

generate_literal(g, lit) ==
    CASE lit.literal_type = "int"    -> Value(g, Constant(IntType(32), lit.value))
      [] lit.literal_type = "float"  -> Value(g, Constant(DoubleType, lit.value))
      [] lit.literal_type = "bool"   -> Value(g, Constant(IntType(1), lit.value))
      [] lit.literal_type = "string" -> _get_string_constant(g, Text(lit.value))
      [] OTHER                       -> GenFailed(g, "CodeGenError")

generate_identifier(g, ident) ==
    IF ident.name \notin DOMAIN g.variables
    THEN GenFailed(g, "KeyError")
    ELSE load(g, g.variables[ident.name], ident.name)

\* the pointers are added like numbers
_concatenate_strings_added(g, left, right) ==
    binop(g, "add", left, right, "addtmp")

_concatenate_strings(g, left, right) ==
    Bind(call_stdlib(g, "strlen", IntType(64), <<left>>), LAMBDA len_left :
    Bind(call_stdlib(len_left.g, "strlen", IntType(64), <<right>>),
         LAMBDA len_right :
    Bind(binop(len_right.g, "add", len_left.value, len_right.value, "total_len"),
         LAMBDA total_len :
    Bind(binop(total_len.g, "add", total_len.value, Constant(IntType(64), 1),
               "total_len_null"),
         LAMBDA total_len_with_null :
    Bind(call_stdlib(total_len_with_null.g, "malloc", PointerType(IntType(8)),
                     <<total_len_with_null.value>>),
         LAMBDA result_ptr :
    Bind(call_stdlib(result_ptr.g, "strcpy", PointerType(IntType(8)),
                     <<result_ptr.value, left>>),
         LAMBDA copied :
             Value(call_stdlib(copied.g, "strcat", PointerType(IntType(8)),
                               <<result_ptr.value, right>>).g,
                   result_ptr.value)))))))

_compare_strings(g, left, right) ==
    Bind(call_stdlib(IF "strcmp" \in { g.module.declared[i] :
                                         i \in DOMAIN g.module.declared }
                     THEN g
                     ELSE [g EXCEPT !.module.declared = Append(@, "strcmp")],
                     "strcmp", IntType(32), <<left, right>>),
         LAMBDA cmp_result :
             icmp_signed(cmp_result.g, "==", cmp_result.value,
                         Constant(IntType(32), 0), "streqtmp"))

RECURSIVE generate_expression(_, _)
RECURSIVE generate_arguments(_, _, _, _)

\* the instruction of generate_binary_op for the conventional operator
binary_instruction(g, conventional_op, l, r) ==
    CASE conventional_op = "+" ->
           IF IsPointer(l.type) /\ IsPointer(r.type)
           THEN _concatenate_strings(g, l, r)
           ELSE binop(g, "add", l, r, "addtmp")
      [] conventional_op = "-" -> binop(g, "sub", l, r, "subtmp")
      [] conventional_op = "*" -> binop(g, "mul", l, r, "multmp")
      [] conventional_op = "/" -> binop(g, "sdiv", l, r, "divtmp")
      [] conventional_op = ">" -> icmp_signed(g, ">", l, r, "gttmp")
      [] conventional_op = "<" -> icmp_signed(g, "<", l, r, "lttmp")
      [] conventional_op = "==" ->
           IF IsPointer(l.type) /\ IsPointer(r.type)
           THEN _compare_strings(g, l, r)
           ELSE icmp_signed(g, "==", l, r, "eqtmp")
      [] OTHER -> GenFailed(g, "UnsupportedOperator")

generate_binary_op(g, binop_node) ==
    Bind(generate_expression(g, binop_node.left), LAMBDA left :
        IF left.g.err # "" THEN left
        ELSE Bind(generate_expression(left.g, binop_node.right), LAMBDA right :
            IF right.g.err # "" THEN right
            ELSE binary_instruction(
                     right.g,
                     IF DictHas(OPERATOR_MAPPINGS, binop_node.operator)
                     THEN DictGet(OPERATOR_MAPPINGS, binop_node.operator)
                     ELSE binop_node.operator,
                     left.value, right.value)))

\* args = [self.generate_expression(arg) for arg in call.arguments]
generate_arguments(g, arguments, i, args) ==
    IF i > Len(arguments) \/ g.err # ""
    THEN [g |-> g, args |-> args]
    ELSE Bind(generate_expression(g, arguments[i]), LAMBDA arg :
             generate_arguments(arg.g, arguments, i + 1, Append(args, arg.value)))

\* builder.call raises TypeError on an argument of another type than the
\* parameter's, IndexError on a missing argument
call(g, func, args, name) ==
    LET fn == g.module.functions[func]
    IN  IF Len(args) < Len(fn.args)
        THEN GenFailed(g, "IndexError")
        ELSE IF \E i \in DOMAIN fn.args : args[i].type # fn.args[i]
        THEN GenFailed(g, "TypeError")
        ELSE Emit(g, "call " \o fn.name, fn.return_type, args, name)

generate_function_call(g, call_node) ==
    IF call_node.function_name \notin DOMAIN g.functions
    THEN GenFailed(g, "UndefinedFunctionCall")
    ELSE Bind(generate_arguments(g, call_node.arguments, 1, <<>>),
              LAMBDA evaluated :
                  IF evaluated.g.err # ""
                  THEN GenFailed(evaluated.g, evaluated.g.err)
                  ELSE call(evaluated.g, g.functions[call_node.function_name],
                            evaluated.args, "calltmp"))

generate_expression(g, expr) ==
    CASE expr.kind = "Literal"      -> generate_literal(g, expr)
      [] expr.kind = "Identifier"   -> generate_identifier(g, expr)
      [] expr.kind = "BinaryOp"     -> generate_binary_op(g, expr)
      [] expr.kind = "FunctionCall" -> generate_function_call(g, expr)
      [] OTHER                      -> GenFailed(g, "CodeGenError")

generate_var_declaration(g, decl) ==
    IF get_llvm_type(decl.var_type) = NoType
    THEN GenRaise(g, "UnknownType")
    ELSE Bind(alloca(g, get_llvm_type(decl.var_type), decl.name),
              LAMBDA var_alloca :
         Bind([var_alloca.g EXCEPT !.variables =
                   DictPut(@, decl.name, var_alloca.value)],
              LAMBDA declared :
                  IF decl.initializer = None THEN declared
                  ELSE Bind(generate_expression(declared, decl.initializer),
                            LAMBDA init_value :
                                IF init_value.g.err # "" THEN init_value.g
                                ELSE store(init_value.g, init_value.value,
                                           var_alloca.value))))

generate_assignment(g, assign) ==
    Bind(generate_expression(g, assign.value), LAMBDA value :
        IF value.g.err # "" THEN value.g
        ELSE IF assign.name \notin DOMAIN value.g.variables
        THEN GenRaise(value.g, "KeyError")
        ELSE store(value.g, value.value, value.g.variables[assign.name]))

generate_return(g, ret_stmt) ==
    IF ret_stmt.value # None
    THEN Bind(generate_expression(g, ret_stmt.value), LAMBDA value :
             IF value.g.err # "" THEN value.g ELSE ret(value.g, value.value))
    ELSE ret_void(g)

\* fmt_ptr = self._get_string_constant(fmt); self.builder.call(callee, ...)
call_formatted(g, callee, fmt, v) ==
    Bind(_get_string_constant(g, Format(fmt)), LAMBDA fmt_ptr :
        call_stdlib(fmt_ptr.g, callee, IntType(32), <<fmt_ptr.value, v>>))

_print_value(g, val) ==
    IF val.type = IntType(1)
    THEN Bind(Emit(g, "zext", IntType(32), <<val>>, ""), LAMBDA val_ext :
             call_formatted(val_ext.g, "printf", "%d", val_ext.value).g)
    ELSE call_formatted(g, "printf",
                        CASE val.type = IntType(32) -> "%d"
                          [] val.type = DoubleType  -> "%f"
                          [] IsPointer(val.type)    -> "%s"
                          [] OTHER                  -> "%d",
                        val).g

RECURSIVE print_expressions(_, _, _)

\* for expr in stmt.expressions
print_expressions(g, expressions, i) ==
    IF i > Len(expressions) \/ g.err # ""
    THEN g
    ELSE print_expressions(
             IF expressions[i].kind = "Literal"
                /\ expressions[i].literal_type = "string"
             THEN Bind(_get_string_constant(g, Text(expressions[i].value)),
                       LAMBDA str_const :
                           call_stdlib(str_const.g, "printf", IntType(32),
                                       <<str_const.value>>).g)
             ELSE Bind(generate_expression(g, expressions[i]), LAMBDA value :
                      IF value.g.err # "" THEN value.g
                      ELSE _print_value(value.g, value.value)),
             expressions, i + 1)

generate_print_statement(g, stmt) ==
    Bind(print_expressions(g, stmt.expressions, 1), LAMBDA printed :
        IF printed.err # "" THEN printed
        ELSE Bind(_get_string_constant(printed, Format("\\n")),
                  LAMBDA newline_str :
                      call_stdlib(newline_str.g, "printf", IntType(32),
                                  <<newline_str.value>>).g))

generate_input_statement(g, stmt) ==
    IF stmt.variable_name \notin DOMAIN g.variables
    THEN GenRaise(g, "KeyError")
    ELSE Bind(g.variables[stmt.variable_name], LAMBDA var_ptr :
        IF IsPointer(var_ptr.type.pointee)
        THEN Bind(call_stdlib(g, "malloc", PointerType(IntType(8)),
                              <<Constant(IntType(64), 256)>>),
                  LAMBDA buf :
                      store(call_formatted(buf.g, "scanf", "%255s", buf.value).g,
                            buf.value, var_ptr))
        ELSE call_formatted(g, "scanf",
                            CASE var_ptr.type.pointee = IntType(32) -> "%d"
                              [] var_ptr.type.pointee = DoubleType  -> "%lf"
                              [] OTHER                              -> "%d",
                            var_ptr).g)

RECURSIVE generate_statement(_, _)
RECURSIVE generate_body(_, _, _)

\* for stmt in body: self.generate_statement(stmt)
generate_body(g, body, i) ==
    IF i > Len(body) \/ g.err # ""
    THEN g
    ELSE generate_body(generate_statement(g, body[i]), body, i + 1)

\* the branch is added whether the block is terminated or not
branch_unguarded(g, target) == IF g.err # "" THEN g ELSE branch(g, target)

\* if not self.builder.block.is_terminated: self.builder.branch(target)
branch_if_open(g, target) ==
    IF g.err # "" THEN g
    ELSE IF ~ is_terminated(g) THEN branch(g, target) ELSE g

branch_always(g, target) == IF g.err # "" THEN g ELSE branch(g, target)

generate_if_statement(g, if_stmt) ==
    Bind(generate_expression(g, if_stmt.condition), LAMBDA condition :
        IF condition.g.err # "" THEN condition.g ELSE
    Bind(append_basic_block(condition.g, "if.then"), LAMBDA g1 :
    Bind(append_basic_block(g1, "if.else"), LAMBDA g2 :
    Bind(append_basic_block(g2, "if.end"), LAMBDA g3 :
    Bind(cbranch(g3, condition.value, LastBlock(g1), LastBlock(g2)),
         LAMBDA branched :
        IF branched.err # "" THEN branched ELSE
    Bind(branch_if_open(
             generate_body(position_at_end(branched, LastBlock(g1)),
                           if_stmt.then_body, 1),
             LastBlock(g3)),
         LAMBDA then :
        IF then.err # "" THEN then ELSE
    Bind(branch_if_open(
             generate_body(position_at_end(then, LastBlock(g2)),
                           if_stmt.else_body, 1),
             LastBlock(g3)),
         LAMBDA else :
        IF else.err # "" THEN else
        ELSE position_at_end(else, LastBlock(g3)))))))))

generate_while_loop(g, while_stmt) ==
    Bind(append_basic_block(g, "while.cond"), LAMBDA g1 :
    Bind(append_basic_block(g1, "while.body"), LAMBDA g2 :
    Bind(append_basic_block(g2, "while.end"), LAMBDA g3 :
    Bind(branch(g3, LastBlock(g1)), LAMBDA entered :
        IF entered.err # "" THEN entered ELSE
    Bind(generate_expression(position_at_end(entered, LastBlock(g1)),
                             while_stmt.condition),
         LAMBDA condition :
        IF condition.g.err # "" THEN condition.g ELSE
    Bind(IF condition.value.type = IntType(32)
         THEN icmp_signed(condition.g, "!=", condition.value,
                          Constant(IntType(32), 0), "tobool")
         ELSE condition,
         LAMBDA tobool :
    Bind(cbranch(tobool.g, tobool.value, LastBlock(g2), LastBlock(g3)),
         LAMBDA branched :
        IF branched.err # "" THEN branched ELSE
    Bind(branch_if_open(
             generate_body(position_at_end(branched, LastBlock(g2)),
                           while_stmt.body, 1),
             LastBlock(g1)),
         LAMBDA body :
        IF body.err # "" THEN body
        ELSE position_at_end(body, LastBlock(g3))))))))))

generate_for_loop(g, for_stmt) ==
    Bind(generate_statement(g, for_stmt.init), LAMBDA init :
        IF init.err # "" THEN init ELSE
    Bind(append_basic_block(init, "for.cond"), LAMBDA g1 :
    Bind(append_basic_block(g1, "for.body"), LAMBDA g2 :
    Bind(append_basic_block(g2, "for.update"), LAMBDA g3 :
    Bind(append_basic_block(g3, "for.end"), LAMBDA g4 :
    Bind(branch(g4, LastBlock(g1)), LAMBDA entered :
        IF entered.err # "" THEN entered ELSE
    Bind(generate_expression(position_at_end(entered, LastBlock(g1)),
                             for_stmt.condition),
         LAMBDA condition :
        IF condition.g.err # "" THEN condition.g ELSE
    Bind(cbranch(condition.g, condition.value, LastBlock(g2), LastBlock(g4)),
         LAMBDA branched :
        IF branched.err # "" THEN branched ELSE
    Bind(branch_if_open(
             generate_body(position_at_end(branched, LastBlock(g2)),
                           for_stmt.body, 1),
             LastBlock(g3)),
         LAMBDA body :
        IF body.err # "" THEN body ELSE
    Bind(branch_always(
             generate_statement(position_at_end(body, LastBlock(g3)),
                                for_stmt.update),
             LastBlock(g1)),
         LAMBDA update :
        IF update.err # "" THEN update
        ELSE position_at_end(update, LastBlock(g4))))))))))))

generate_statement(g, stmt) ==
    CASE stmt.kind = "VarDeclaration"      -> generate_var_declaration(g, stmt)
      [] stmt.kind = "Assignment"          -> generate_assignment(g, stmt)
      [] stmt.kind = "IfStatement"         -> generate_if_statement(g, stmt)
      [] stmt.kind = "WhileLoop"           -> generate_while_loop(g, stmt)
      [] stmt.kind = "ForLoop"             -> generate_for_loop(g, stmt)
      [] stmt.kind = "ReturnStatement"     -> generate_return(g, stmt)
      [] stmt.kind = "PrintStatement"      -> generate_print_statement(g, stmt)
      [] stmt.kind = "InputStatement"      -> generate_input_statement(g, stmt)
      [] stmt.kind = "ExpressionStatement" ->
           generate_expression(g, stmt.expression).g
      [] OTHER                             -> g

RECURSIVE store_parameters(_, _, _)

\* for i, param in enumerate(func_def.parameters): alloca, store, register
store_parameters(g, parameters, i) ==
    IF i > Len(parameters) \/ g.err # ""
    THEN g
    ELSE Bind(alloca(g, get_llvm_type(parameters[i].param_type),
                     parameters[i].name),
              LAMBDA param_ptr :
         Bind(store(param_ptr.g,
                    Argument(get_llvm_type(parameters[i].param_type), i),
                    param_ptr.value),
              LAMBDA stored :
                  store_parameters(
                      IF stored.err # "" THEN stored
                      ELSE [stored EXCEPT !.variables =
                               DictPut(@, parameters[i].name, param_ptr.value)],
                      parameters, i + 1)))

GlobalNames(g) ==
    { g.module.declared[i] : i \in DOMAIN g.module.declared }
    \cup { g.module.functions[i].name : i \in DOMAIN g.module.functions }

fresh_variables_kept(g) == g.variables

\* self.variables = {}: the map of the function generated next
fresh_variables(g) == EmptyDict

\* generate_function() up to the loop over the body: the IR function, its
\* registration, the entry block, the cleared variable map, the parameters
generate_function_enter(g, func_def) ==
    Bind([name |-> IF func_def.name = MAIN_FUNCTION_NAME
                   THEN "main" ELSE func_def.name,
          return_type |-> get_llvm_type(func_def.return_type),
          args |-> [i \in DOMAIN func_def.parameters |->
                       get_llvm_type(func_def.parameters[i].param_type)],
          blocks |-> <<>>, values |-> 0],
         LAMBDA function :
             IF (\E i \in DOMAIN function.args : function.args[i] = NoType)
                \/ function.return_type = NoType
             THEN GenRaise(g, "UnknownType")
             ELSE IF function.name \in GlobalNames(g)
             THEN GenRaise(g, "AssertionError")
             ELSE store_parameters(
                      [position_at_end(
                           append_basic_block(
                               [g EXCEPT
                                  !.module.functions = Append(@, function),
                                  !.functions =
                                      DictPut(@, func_def.name,
                                              Len(g.module.functions) + 1),
                                  !.builder.function =
                                      Len(g.module.functions) + 1],
                               "entry"),
                           1)
                         EXCEPT !.variables = fresh_variables(g),
                                !.has_return = FALSE],
                      func_def.parameters, 1))

\* one iteration of the loop over func_def.body
generate_function_statement(g, stmt) ==
    generate_statement(
        IF stmt.kind = "ReturnStatement" THEN [g EXCEPT !.has_return = TRUE] ELSE g,
        stmt)

\* generate_function() after the loop: the default return
generate_function_leave(g) ==
    LET return_type == CurrentFunction(g).return_type
    IN  IF ~ g.has_return
        THEN IF IsInt(return_type)
             THEN ret(g, Constant(return_type, 0))
             ELSE IF return_type = DoubleType
             THEN ret(g, Constant(return_type, 0))
             ELSE ret_void(g)
        ELSE g

RECURSIVE generate_function_body(_, _, _)

generate_function_body(g, body, i) ==
    IF i > Len(body) \/ g.err # ""
    THEN g
    ELSE generate_function_body(generate_function_statement(g, body[i]),
                                body, i + 1)

generate_function(g, func_def) ==
    Bind(generate_function_body(generate_function_enter(g, func_def),
                                func_def.body, 1),
         LAMBDA body :
             IF body.err # "" THEN body ELSE generate_function_leave(body))

RECURSIVE generate_functions(_, _, _)

\* generate(): for func in ast.functions
generate_functions(g, functions, i) ==
    IF i > Len(functions) \/ g.err # ""
    THEN g
    ELSE generate_functions(generate_function(g, functions[i]), functions, i + 1)

generate(g, program) == generate_functions(g, program.functions, 1)

(***************************************************************************)
(* The programs compiled.  Bodies of the entry function are all statement  *)
(* lists of up to MaxBody statements from Statements, after a prelude;     *)
(* programs of several functions combine the definitions of Functions.     *)
(***************************************************************************)
MaxBody == 2

MaxFunctions == 2

int10 == Literal(10, "int")
int5 == Literal(5, "int")
int20 == Literal(20, "int")
true == Literal(1, "bool")
idX == Identifier("x")
idY == Identifier("y")

SimpleStatements ==
    { VarDeclaration("Float", "x", None),
      VarDeclaration("Float", "x", int10),
      VarDeclaration("Float", "y", int5),
      VarDeclaration("Float", "y", None),
      Assignment("x", int20),
      ReturnStatement(idX),
      ReturnStatement(BinaryOp("/", idX, idY)),
      ReturnStatement(None),
      InputStatement("x"),
      PrintStatement(<<idX, Literal(0, "string")>>),
      ExpressionStatement(FunctionCall("side", <<>>)) }

CompoundStatements ==
    { IfStatement(BinaryOp("=", idX, int5), <<Assignment("x", int20)>>, <<>>),
      IfStatement(true, <<ReturnStatement(int10)>>, <<ReturnStatement(idX)>>),
      IfStatement(true, <<ReturnStatement(int10), Assignment("x", int20)>>,
                  <<InputStatement("x")>>),
      WhileLoop(BinaryOp("#", idX, int10),
                <<Assignment("x", BinaryOp("/", idX, int5))>>),
      WhileLoop(idX, <<ReturnStatement(idX)>>),
      WhileLoop(true, <<IfStatement(BinaryOp("@@", idX, int5),
                                    <<ReturnStatement(idX)>>, <<>>),
                        Assignment("x", int20)>>),
      ForLoop(VarDeclaration("Float", "y", int10), BinaryOp("#", idY, int20),
              Assignment("y", BinaryOp("/", idY, int5)), <<PrintStatement(<<idY>>)>>),
      ForLoop(Assignment("x", int10), BinaryOp("#", idX, int20),
              VarDeclaration("Float", "y", int5), <<ReturnStatement(idY)>>),
      IfStatement(true,
                  <<WhileLoop(true,
                      <<ForLoop(Assignment("x", int10), BinaryOp("=", idX, int5),
                                Assignment("x", BinaryOp("~", idX, int5)),
                                <<ReturnStatement(idX)>>)>>)>>,
                  <<VarDeclaration("Float", "x", int5)>>) }

Statements == SimpleStatements \cup CompoundStatements

SeqsUpTo(S, n) == UNION { [1..k -> S] : k \in 0..n }

\* a body starts with or without the declaration of x
Preludes == { <<>>, <<VarDeclaration("Float", "x", int10)>> }

Bodies == { prelude \o body : prelude \in Preludes,
                               body \in SeqsUpTo(Statements, MaxBody) }

xFloat == Parameter("Float", "x")

Functions ==
    { FunctionDef("Float", "side", <<>>, <<>>),
      FunctionDef("Float", "side", <<>>, <<ReturnStatement(FunctionCall("f", <<>>))>>),
      FunctionDef("Float", "side", <<>>,
                  <<VarDeclaration("Float", "x", int10),
                    ReturnStatement(FunctionCall("f", <<idX>>))>>),
      FunctionDef("Float", "side", <<>>, <<VarDeclaration("Float", "f", int10)>>),
      FunctionDef("Float", "side", <<xFloat>>, <<ReturnStatement(idX)>>),
      FunctionDef("Float", "f", <<>>, <<ReturnStatement(int10)>>),
      FunctionDef("Float", "f", <<>>,
                  <<VarDeclaration("Float", "x", int5), ReturnStatement(idX)>>),
      FunctionDef("Float", "f", <<xFloat>>, <<ReturnStatement(idX)>>),
      FunctionDef("Float", "f", <<xFloat>>, <<VarDeclaration("Float", "x", int5)>>),
      FunctionDef("While", "f", <<xFloat>>,
                  <<ReturnStatement(BinaryOp("=", FunctionCall("f", <<idX>>), idX))>>),
      FunctionDef("int", "g", <<xFloat>>, <<>>) }

Programs ==
    { Program(<<FunctionDef("Float", "side", <<>>, body)>>) : body \in Bodies }
    \cup { Program(fs) : fs \in SeqsUpTo(Functions, MaxFunctions) }

(***************************************************************************)
(* Compilation of one program: semantic analysis, then code generation.    *)
(***************************************************************************)
At(phase, func, stmt) == [at |-> phase, func |-> func, stmt |-> stmt]

\* cli.main is not running
CliIdle == [at |-> "idle"]

\* execute() was not called
JitIdle == [status |-> "idle"]

Init ==
    /\ ast \in Programs
    /\ pc = At("analyze", 0, 0)
    /\ analyzer = SemanticAnalyzer
    /\ codegen = CodeGenerator
    /\ lookup = LookupIdle
    /\ cli = CliIdle
    /\ files = {}
    /\ jit = JitIdle
    /\ regenerated = None

\* after a step of the analysis: unwind on an exception, else go on
Continue(an, next) == IF an.err # "" THEN At("semantic_error", 0, 0) ELSE next

NextFunction(i) ==
    IF i < Len(ast.functions)
    THEN At("analyze_function", i + 1, 0)
    ELSE At("analyzed", 0, 0)

\* after a step of the generation: unwind on an exception, else go on
GenContinue(g, next) == IF g.err # "" THEN At("codegen_error", 0, 0) ELSE next

NextGenerated(i) ==
    IF i < Len(ast.functions)
    THEN At("generate_function", i + 1, 0)
    ELSE At("generated", 0, 0)

AnalyzeFirstPass ==
    /\ pc.at = "analyze"
    /\ analyzer' = analyze_first_pass(analyzer, ast)
    /\ pc' = Continue(analyzer', NextFunction(0))
    /\ UNCHANGED <<ast, codegen, lookup, cli, files, jit, regenerated>>

AnalyzeFunctionEnter ==
    /\ pc.at = "analyze_function"
    /\ analyzer' = analyze_function_enter(analyzer, ast.functions[pc.func])
    /\ pc' = Continue(analyzer', At("analyze_body", pc.func, 1))
    /\ UNCHANGED <<ast, codegen, lookup, cli, files, jit, regenerated>>

AnalyzeStatement ==
    /\ pc.at = "analyze_body"
    /\ pc.stmt <= Len(ast.functions[pc.func].body)
    /\ analyzer' = visit(analyzer, ast.functions[pc.func].body[pc.stmt])
    /\ pc' = Continue(analyzer', At("analyze_body", pc.func, pc.stmt + 1))
    /\ UNCHANGED <<ast, codegen, lookup, cli, files, jit, regenerated>>

AnalyzeFunctionLeave ==
    /\ pc.at = "analyze_body"
    /\ pc.stmt > Len(ast.functions[pc.func].body)
    /\ analyzer' = analyze_function_leave(analyzer)
    /\ pc' = NextFunction(pc.func)
    /\ UNCHANGED <<ast, codegen, lookup, cli, files, jit, regenerated>>

\* codegen = CodeGenerator(); codegen.generate(ast)
Generate ==
    /\ pc.at = "analyzed"
    /\ codegen' = CodeGenerator
    /\ pc' = NextGenerated(0)
    /\ UNCHANGED <<ast, analyzer, lookup, cli, files, jit, regenerated>>

GenerateFunctionEnter ==
    /\ pc.at = "generate_function"
    /\ codegen' = generate_function_enter(codegen, ast.functions[pc.func])
    /\ pc' = GenContinue(codegen', At("generate_body", pc.func, 1))
    /\ UNCHANGED <<ast, analyzer, lookup, cli, files, jit, regenerated>>

GenerateStatement ==
    /\ pc.at = "generate_body"
    /\ pc.stmt <= Len(ast.functions[pc.func].body)
    /\ codegen' = generate_function_statement(
                      codegen, ast.functions[pc.func].body[pc.stmt])
    /\ pc' = GenContinue(codegen', At("generate_body", pc.func, pc.stmt + 1))
    /\ UNCHANGED <<ast, analyzer, lookup, cli, files, jit, regenerated>>

GenerateFunctionLeave ==
    /\ pc.at = "generate_body"
    /\ pc.stmt > Len(ast.functions[pc.func].body)
    /\ codegen' = generate_function_leave(codegen)
    /\ pc' = GenContinue(codegen', NextGenerated(pc.func))
    /\ UNCHANGED <<ast, analyzer, lookup, cli, files, jit, regenerated>>

Next ==
    \/ AnalyzeFirstPass
    \/ AnalyzeFunctionEnter
    \/ AnalyzeStatement
    \/ AnalyzeFunctionLeave
    \/ Generate
    \/ GenerateFunctionEnter
    \/ GenerateStatement
    \/ GenerateFunctionLeave

Spec == Init /\ [][Next]_vars

(***************************************************************************)
(* Properties of the analysis and the generation of one program.           *)
(***************************************************************************)
Terminators == {"ret", "ret void", "br", "cbr"}

IsTerminator(instruction) == instruction.opcode \in Terminators

\* a block holds exactly one terminator, as its last instruction
WellTerminated(block) ==
    /\ Len(block.instructions) >= 1
    /\ IsTerminator(block.instructions[Len(block.instructions)])
    /\ \A i \in 1..(Len(block.instructions) - 1) :
         ~ IsTerminator(block.instructions[i])

\* C1: when generate() returns for a program the analysis accepted, every
\* basic block of every emitted function holds exactly one terminator, and
\* that terminator is the block's last instruction.
EveryBlockOneTerminator ==
    pc.at = "generated" =>
        \A f \in DOMAIN codegen.module.functions :
            \A b \in DOMAIN codegen.module.functions[f].blocks :
                WellTerminated(codegen.module.functions[f].blocks[b])

\* C2: a declaration of a name that an earlier declaration of the program
\* (variable, parameter or function, in any function) already used makes the
\* analysis fail with DuplicateDeclaration at that declaration.
SecondDeclarationRejected ==
    \A i \in DOMAIN analyzer.events :
        (analyzer.events[i].event = "declare" /\ analyzer.events[i].known)
            => /\ analyzer.err = "DuplicateDeclaration"
               /\ i = Len(analyzer.events)

Types == DictKeys(TYPE_MAPPINGS)

\* C3: every Identifier read the analysis reaches fails with
\* UndeclaredIdentifier when the name is not in the variable table, else with
\* UseBeforeInit when its initialized flag is false, else yields the type the
\* table holds for the name; a failing read ends the analysis with its error.
IdentifierReadRules ==
    \A i \in DOMAIN analyzer.events :
        LET e == analyzer.events[i]
        IN  e.event = "read" =>
              /\ ~ e.declared => e.outcome = "UndeclaredIdentifier"
              /\ (e.declared /\ ~ e.initialized) => e.outcome = "UseBeforeInit"
              /\ (e.declared /\ e.initialized) =>
                    /\ e.outcome \in Types
                    /\ (pc.at \in {"analyze_body", "semantic_error"}
                        /\ e.function = analyzer.current_function) =>
                          /\ e.name \in DOMAIN analyzer.symbol_table.symbols
                          /\ analyzer.symbol_table.symbols[e.name].type = e.outcome
              /\ e.outcome \notin Types =>
                    /\ analyzer.err = e.outcome
                    /\ pc.at = "semantic_error"
                    /\ i = Len(analyzer.events)

\* a read of a declared, uninitialized name was made inside an expression
\* after a successful read
IdentifierReadWitness ==
    \E i, j \in DOMAIN analyzer.events :
        /\ i < j
        /\ analyzer.events[i].event = "read"
        /\ analyzer.events[i].outcome = "Float"
        /\ analyzer.events[j].event = "read"
        /\ analyzer.events[j].declared
        /\ ~ analyzer.events[j].initialized
        /\ analyzer.events[j].outcome = "UseBeforeInit"

FunctionNames(program) ==
    { program.functions[i].name : i \in DOMAIN program.functions }

HasEntryPoint(program) ==
    \E i \in DOMAIN program.functions :
        /\ program.functions[i].name = MAIN_FUNCTION_NAME
        /\ Len(program.functions[i].parameters) = 0

DistinctFunctionNames(program) ==
    \A i, j \in DOMAIN program.functions :
        program.functions[i].name = program.functions[j].name => i = j

AnalysisEnded == pc.at \notin {"analyze", "analyze_function", "analyze_body"}

\* no function body was entered: the analysis is still in its first pass
InFirstPass ==
    /\ analyzer.current_function = NotFound
    /\ \A i \in DOMAIN analyzer.events :
         /\ analyzer.events[i].event = "declare"
         /\ analyzer.events[i].namespace = "function"

\* C4 as stated: a program without a zero-parameter function named 'side'
\* fails with MissingEntryPoint, in the first pass.
NoEntryPointIsMissingEntryPoint ==
    (AnalysisEnded /\ ~ HasEntryPoint(ast)) =>
        /\ analyzer.err = "MissingEntryPoint"
        /\ InFirstPass

\* C4, amended: a program without a zero-parameter function named 'side'
\* fails in the first pass, before any function body is analyzed; the error is
\* MissingEntryPoint when no function is named 'side', and
\* EntryPointHasParameters when the function named 'side' has parameters
\* (function names being distinct).
EntryPointChecked ==
    (AnalysisEnded /\ ~ HasEntryPoint(ast)) =>
        /\ pc.at = "semantic_error"
        /\ InFirstPass
        /\ DistinctFunctionNames(ast) =>
             analyzer.err = IF MAIN_FUNCTION_NAME \in FunctionNames(ast)
                            THEN "EntryPointHasParameters"
                            ELSE "MissingEntryPoint"

EntryPointWitness ==
    /\ pc.at = "semantic_error"
    /\ Len(ast.functions) = 2
    /\ DistinctFunctionNames(ast)
    /\ MAIN_FUNCTION_NAME \notin FunctionNames(ast)
    /\ analyzer.err = "MissingEntryPoint"

\* C5: generate() completes for every program the analysis accepted; in
\* particular every FunctionCall the analysis accepted resolves in the
\* generator's function registry.
AcceptedCallsResolve ==
    pc.at = "codegen_error" => codegen.err # "UndefinedFunctionCall"

(***************************************************************************)
(* Language Definition queries: a token of a category is looked up in the  *)
(* forward table and the result in the reverse table.                      *)
(***************************************************************************)
InitMappings ==
    \E c \in Categories, t \in Tokens :
        /\ ast = Program(<<>>)
        /\ pc = At("mappings", 0, 0)
        /\ analyzer = SemanticAnalyzer
        /\ codegen = CodeGenerator
        /\ lookup = [pc |-> "start", category |-> c, token |-> t,
                  fwd |-> NotFound, rev |-> NotFound]
        /\ cli = CliIdle
        /\ files = {}
        /\ jit = JitIdle
        /\ regenerated = None

ForwardLookup ==
    /\ lookup.pc = "start"
    /\ lookup' = [lookup EXCEPT
                    !.pc = "forward",
                    !.fwd = DictGet(Forward(lookup.category), lookup.token)]
    /\ UNCHANGED <<ast, pc, analyzer, codegen, cli, files, jit, regenerated>>

ReverseLookup ==
    /\ lookup.pc = "forward"
    /\ lookup.fwd # NotFound
    /\ lookup' = [lookup EXCEPT
                    !.pc = "reverse",
                    !.rev = DictGet(Reverse(lookup.category), lookup.fwd)]
    /\ UNCHANGED <<ast, pc, analyzer, codegen, cli, files, jit, regenerated>>

NextMappings == ForwardLookup \/ ReverseLookup

SpecMappings == InitMappings /\ [][NextMappings]_vars

\* C10: in every category, a key looked up in the forward table and the
\* result looked up in the reverse table gives the key back; the forward
\* table is injective and the reverse table holds exactly the swapped items.
RoundTripIdentity ==
    /\ (lookup.pc = "reverse" => lookup.rev = lookup.token)
    /\ \A c \in Categories :
         /\ \A k1, k2 \in DictKeys(Forward(c)) :
              DictGet(Forward(c), k1) = DictGet(Forward(c), k2) => k1 = k2
         /\ DictKeys(Reverse(c)) = { DictGet(Forward(c), k) : k \in DictKeys(Forward(c)) }
         /\ \A v \in DictKeys(Reverse(c)) :
              DictGet(Forward(c), DictGet(Reverse(c), v)) = v

RoundTripWitness ==
    /\ lookup.pc = "reverse"
    /\ lookup.category = "operator"
    /\ lookup.token = "@@"
    /\ lookup.fwd = "=="
    /\ lookup.rev = "@@"


(***************************************************************************)
(* execute(): LLVM parses and verifies the module text, then the JIT runs  *)
(* main().  The run is an interpretation of the emitted instructions over  *)
(* a frame of instruction results (env) and stack slots (mem).  A signed   *)
(* division by zero and a load of a slot never stored to are undefined:    *)
(* the platform decides what they do.                                      *)
(***************************************************************************)
\* mod.verify(): every block ends in its only terminator, a ret carries the
\* function's return type, a conditional branch tests an i1
ValidFunction(fn) ==
    \A b \in DOMAIN fn.blocks :
        /\ WellTerminated(fn.blocks[b])
        /\ \A i \in DOMAIN fn.blocks[b].instructions :
             LET ins == fn.blocks[b].instructions[i]
             IN  /\ ins.opcode = "ret" => ins.operands[1].type = fn.return_type
                 /\ ins.opcode = "ret void" => fn.return_type = VoidType
                 /\ ins.opcode = "cbr" => ins.operands[1].type = IntType(1)

verify(g) ==
    \A f \in DOMAIN g.module.functions : ValidFunction(g.module.functions[f])

\* engine.get_function_address("main"): the index of main, 0 when absent
get_function_address(g, name) ==
    IF \E f \in DOMAIN g.module.functions : g.module.functions[f].name = name
    THEN CHOOSE f \in DOMAIN g.module.functions :
             g.module.functions[f].name = name
    ELSE 0

Returned(value) == [status |-> "returned", value |-> value]

Stopped(status) == [status |-> status]

Operand(frame, v) == IF v.kind = "const" THEN v.n ELSE frame.env[v.n]

abs(n) == IF n < 0 THEN -n ELSE n

\* sdiv rounds toward zero
sdiv(a, b) ==
    IF (a < 0) = (b < 0) THEN abs(a) \div abs(b) ELSE -(abs(a) \div abs(b))

icmp(opcode, a, b) ==
    LET holds == CASE opcode = "icmp >" -> a > b
                   [] opcode = "icmp <" -> a < b
                   [] OTHER             -> a = b
    IN  IF holds THEN 1 ELSE 0

\* the longest run interpreted
MaxSteps == 40

RECURSIVE run(_, _, _, _, _, _)

\* cfunc(): the instructions of main from instruction i of a block on;
\* platform says what undefined operations do
run(fn, block, i, frame, fuel, platform) ==
    LET ins == fn.blocks[block].instructions[i]
        a == Operand(frame, ins.operands[1])
        b == Operand(frame, ins.operands[2])
        bind(v) == run(fn, block, i + 1,
                       [frame EXCEPT !.env = DictPut(@, ins.result.n, v)],
                       fuel - 1, platform)
    IN  IF fuel = 0 THEN Stopped("running")
        ELSE CASE ins.opcode = "alloca" -> bind(ins.result.n)
               [] ins.opcode = "store" ->
                    run(fn, block, i + 1,
                        [frame EXCEPT !.mem = DictPut(@, b, a)], fuel - 1, platform)
               [] ins.opcode = "load" ->
                    IF a \in DOMAIN frame.mem
                    THEN bind(frame.mem[a])
                    ELSE bind(platform.undef)
               [] ins.opcode = "add" -> bind(a + b)
               [] ins.opcode = "sub" -> bind(a - b)
               [] ins.opcode = "mul" -> bind(a * b)
               [] ins.opcode = "sdiv" ->
                    IF b # 0 THEN bind(sdiv(a, b))
                    ELSE IF platform.traps THEN Stopped("SIGFPE")
                    ELSE bind(platform.undef)
               [] ins.opcode \in {"icmp >", "icmp <", "icmp =="} ->
                    bind(icmp(ins.opcode, a, b))
               [] ins.opcode = "ret" -> Returned(a)
               [] ins.opcode = "ret void" -> Returned(platform.undef)
               [] ins.opcode = "br" ->
                    run(fn, ins.targets[1], 1, frame, fuel - 1, platform)
               [] ins.opcode = "cbr" ->
                    run(fn, IF a # 0 THEN ins.targets[1] ELSE ins.targets[2], 1,
                        frame, fuel - 1, platform)
               [] OTHER -> Stopped("external")

Platforms == [traps : BOOLEAN, undef : {0, 7}]

execute(g, platform) ==
    IF ~ verify(g) THEN Stopped("RuntimeError")
    ELSE IF get_function_address(g, "main") = 0 THEN Stopped("CodeGenError")
    ELSE run(g.module.functions[get_function_address(g, "main")], 1, 1,
             [env |-> EmptyDict, mem |-> EmptyDict], MaxSteps, platform)

(***************************************************************************)
(* One BinaryOp over two integer variables, generated and run.  The entry  *)
(* function declares x and y and either returns x op y or returns 1 or 0   *)
(* as x op y holds or not.                                                 *)
(***************************************************************************)
Operands == {-3, 0, 5, 10}

SurfaceOperators == DictKeys(OPERATOR_MAPPINGS)

Entry(body) == Program(<<FunctionDef("Float", MAIN_FUNCTION_NAME, <<>>, body)>>)

Declared(a, b) ==
    << VarDeclaration("Float", "x", Literal(a, "int")),
       VarDeclaration("Float", "y", Literal(b, "int")) >>

ArithmeticProgram(op, a, b) ==
    Entry(Declared(a, b) \o <<ReturnStatement(BinaryOp(op, idX, idY))>>)

ComparisonProgram(op, a, b) ==
    Entry(Declared(a, b)
          \o << IfStatement(BinaryOp(op, idX, idY),
                            <<ReturnStatement(Literal(1, "int"))>>, <<>>),
                ReturnStatement(Literal(0, "int")) >>)

BinaryOpPrograms ==
    { ArithmeticProgram(op, a, b) : op \in SurfaceOperators, a, b \in Operands }
    \cup { ComparisonProgram(op, a, b) : op \in SurfaceOperators, a, b \in Operands }

InitBinaryOp ==
    /\ ast \in BinaryOpPrograms
    /\ pc = At("binary_op", 0, 0)
    /\ analyzer = SemanticAnalyzer
    /\ codegen = CodeGenerator
    /\ lookup = LookupIdle
    /\ cli = CliIdle
    /\ files = {}
    /\ jit = JitIdle
    /\ regenerated = None

BinaryOpAnalyze ==
    /\ pc.at = "binary_op"
    /\ analyzer' = analyze(analyzer, ast)
    /\ pc' = IF analyzer'.err = "" THEN At("accepted", 0, 0)
                                   ELSE At("semantic_error", 0, 0)
    /\ UNCHANGED <<ast, codegen, lookup, cli, files, jit, regenerated>>

BinaryOpGenerate ==
    /\ pc.at = "accepted"
    /\ codegen' = generate(codegen, ast)
    /\ pc' = IF codegen'.err = "" THEN At("generated", 0, 0)
                                  ELSE At("codegen_error", 0, 0)
    /\ UNCHANGED <<ast, analyzer, lookup, cli, files, jit, regenerated>>

BinaryOpExecute ==
    /\ pc.at = "generated"
    /\ \E platform \in Platforms : jit' = execute(codegen, platform)
    /\ pc' = At("executed", 0, 0)
    /\ UNCHANGED <<ast, analyzer, codegen, lookup, cli, files, regenerated>>

NextBinaryOp == BinaryOpAnalyze \/ BinaryOpGenerate \/ BinaryOpExecute

SpecBinaryOp == InitBinaryOp /\ [][NextBinaryOp]_vars

\* the BinaryOp of the program, its operand values, and what main computes
TheStatement == ast.functions[1].body[3]

Returns == TheStatement.kind = "ReturnStatement"

TheOperator ==
    IF Returns THEN TheStatement.value.operator ELSE TheStatement.condition.operator

Lhs == ast.functions[1].body[1].initializer.value

Rhs == ast.functions[1].body[2].initializer.value

Computing ==
    { ins \in UNION { { blk.instructions[i] : i \in DOMAIN blk.instructions } :
                      blk \in { codegen.module.functions[1].blocks[b] :
                                  b \in DOMAIN codegen.module.functions[1].blocks } } :
        ins.opcode \in {"add", "sub", "mul", "sdiv", "icmp >", "icmp <", "icmp =="} }

Conventional(op) ==
    CASE op = "/"    -> "add"
      [] op = "~"    -> "sub"
      [] op = "Bool" -> "mul"
      [] op = "+"    -> "sdiv"
      [] op = "="    -> "icmp >"
      [] op = "#"    -> "icmp <"
      [] op = "@@"   -> "icmp =="

Meaning(op, a, b) ==
    CASE op = "/"    -> a + b
      [] op = "~"    -> a - b
      [] op = "Bool" -> a * b
      [] op = "+"    -> sdiv(a, b)
      [] op = "="    -> IF a > b THEN 1 ELSE 0
      [] op = "#"    -> IF a < b THEN 1 ELSE 0
      [] op = "@@"   -> IF a = b THEN 1 ELSE 0

Claimed == {"/", "~", "Bool", "+", "=", "#", "@@"}

\* C8: for a BinaryOp over two integer operands under '/', '~', 'Bool', '+',
\* '=', '#' or '@@', generate_binary_op emits exactly the instruction of the
\* operator's conventional meaning (add, sub, mul, sdiv, signed >, signed <,
\* ==) over the two operands, and the program run returns the value of that
\* meaning: operands 10 and 5 give 15 under '/' and 5 under '~'.
BinaryOpConventional ==
    TheOperator \in Claimed =>
        /\ pc.at \notin {"semantic_error", "codegen_error"}
        /\ pc.at \in {"generated", "executed"} =>
             /\ \E ins \in Computing :
                  /\ Computing = {ins}
                  /\ ins.opcode = Conventional(TheOperator)
                  /\ ins.operands[1].type = IntType(32)
                  /\ ins.operands[2].type = IntType(32)
        /\ (pc.at = "executed"
            /\ Returns = (TheOperator \in {"/", "~", "Bool", "+"})
            /\ (TheOperator = "+" => Rhs # 0)) =>
             jit = Returned(Meaning(TheOperator, Lhs, Rhs))

BinaryOpWitness ==
    /\ pc.at = "executed"
    /\ TheOperator = "/"
    /\ Lhs = 10
    /\ Rhs = 5
    /\ jit = Returned(15)
    /\ \E ins \in Computing : ins.opcode = "add"


(***************************************************************************)
(* Two freshly constructed CodeGenerators generate the same validated      *)
(* Program, function by function, in any interleaving.  Each generator     *)
(* owns its module, builder, maps and string counter.                      *)
(***************************************************************************)
Validated == { p \in Programs : analyze(SemanticAnalyzer, p).err = "" }

InitDet ==
    /\ ast \in Validated
    /\ pc = [at |-> "generating", first |-> 0, second |-> 0]
    /\ analyzer = SemanticAnalyzer
    /\ codegen = CodeGenerator
    /\ lookup = LookupIdle
    /\ cli = CliIdle
    /\ files = {}
    /\ jit = JitIdle
    /\ regenerated = CodeGenerator

\* generate() has returned or raised
Finished(g, done) == g.err # "" \/ done = Len(ast.functions)

FirstGenerateFunction ==
    /\ pc.at = "generating"
    /\ ~ Finished(codegen, pc.first)
    /\ codegen' = generate_function(codegen, ast.functions[pc.first + 1])
    /\ pc' = [pc EXCEPT !.first = @ + 1]
    /\ UNCHANGED <<ast, analyzer, lookup, cli, files, jit, regenerated>>

SecondGenerateFunction ==
    /\ pc.at = "generating"
    /\ ~ Finished(regenerated, pc.second)
    /\ regenerated' = generate_function(regenerated, ast.functions[pc.second + 1])
    /\ pc' = [pc EXCEPT !.second = @ + 1]
    /\ UNCHANGED <<ast, analyzer, codegen, lookup, cli, files, jit>>

NextDet == FirstGenerateFunction \/ SecondGenerateFunction

SpecDet == InitDet /\ [][NextDet]_vars

\* str(self.module): the globals and the functions, each in creation order
ModuleText(g) == [globals |-> g.module.globals, functions |-> g.module.functions]

OptLevels == {0, 2}

Args ==
    [opt_level : OptLevels, output_ast : BOOLEAN, output_llvm : BOOLEAN,
     output_executable : BOOLEAN, run : BOOLEAN]

CliFunctions ==
    { FunctionDef("Float", "side", <<>>, <<>>),
      FunctionDef("Float", "side", <<>>, <<ReturnStatement(idX)>>),
      FunctionDef("Float", "side", <<>>, <<ReturnStatement(FunctionCall("f", <<>>))>>),
      FunctionDef("Float", "side", <<>>,
                  <<ReturnStatement(BinaryOp("+", int10, Literal(0, "int")))>>),
      FunctionDef("Float", "f", <<>>, <<ReturnStatement(int10)>>) }

CliPrograms == { Program(fs) : fs \in SeqsUpTo(CliFunctions, MaxFunctions) }

AstFile == "program.ast"
LlvmFile == "program.ll"
ExeFile == "program"
ll_file == "tmp.ll"
obj_file == "tmp.o"

InitCli ==
    /\ ast \in CliPrograms
    /\ pc = At("cli", 0, 0)
    /\ analyzer = SemanticAnalyzer
    /\ codegen = None
    /\ lookup = LookupIdle
    /\ cli \in [args : Args, at : {"parse"}, phases : {<<>>}, status : {"running"},
                 tools : {<<>>}, raised : {None}, printed : {FALSE},
                 llvm_ir : {None}, saved : {None}, aot_ir : {None},
                 jit_ir : {None}]
    /\ files = {}
    /\ jit = JitIdle
    /\ regenerated = None

\* a phase of the pipeline starts
Enter(c, phase) == [c EXCEPT !.phases = Append(@, phase)]

Goto(c, label) == [c EXCEPT !.at = label]

\* main returns status, or an exception leaves it
Exit(c, status) == [c EXCEPT !.at = "exit", !.status = status]

\* SemanticError is a local name of main, bound by the import of step 3: an
\* exception raised before it reaches the handlers of main with the name
\* unbound, and UnboundLocalError leaves main
ExitEarly(c) == Exit(c, "uncaught")

CliParse ==
    /\ cli.at = "parse"
    /\ \E parsed \in BOOLEAN :
         IF parsed
         THEN /\ cli' = Goto(Enter(cli, "parse"), "build_ast")
              /\ files' = IF cli.args.output_ast THEN files \cup {AstFile} ELSE files
         ELSE /\ cli' = ExitEarly(Enter(cli, "parse"))
              /\ files' = files
    /\ UNCHANGED <<ast, pc, analyzer, codegen, lookup, jit, regenerated>>

CliBuildAst ==
    /\ cli.at = "build_ast"
    /\ \E outcome \in {"built", "ASTBuilderError", "Exception"} :
         cli' = CASE outcome = "built" -> Goto(Enter(cli, "build_ast"), "analyze")
                  [] outcome = "ASTBuilderError" -> Exit(Enter(cli, "build_ast"), "1")
                  [] OTHER -> ExitEarly(Enter(cli, "build_ast"))
    /\ UNCHANGED <<ast, pc, analyzer, codegen, lookup, files, jit, regenerated>>

\* a SemanticError is caught next to analyze(), any other exception by the
\* last handler of main: both return 1
AfterAnalyze_ignored(c, an) == Goto(c, "generate")

AfterAnalyze(c, an) == IF an.err = "" THEN Goto(c, "generate") ELSE Exit(c, "1")

CliAnalyze ==
    /\ cli.at = "analyze"
    /\ analyzer' = analyze(SemanticAnalyzer, ast)
    /\ cli' = AfterAnalyze(Enter(cli, "analyze"), analyzer')
    /\ UNCHANGED <<ast, pc, codegen, lookup, files, jit, regenerated>>

\* codegen = CodeGenerator(); llvm_ir = codegen.generate(ast)
CliGenerate ==
    /\ cli.at = "generate"
    /\ codegen' = generate(CodeGenerator, ast)
    /\ cli' = IF codegen'.err = ""
              THEN Goto(Enter([cli EXCEPT !.llvm_ir = ModuleText(codegen')],
                              "generate"),
                        "optimize")
              ELSE Exit(Enter(cli, "generate"), "1")
    /\ UNCHANGED <<ast, pc, analyzer, lookup, files, jit, regenerated>>

\* pm.run(mod): the pipeline of the level rewrites every function of the
\* parsed module; a function keeps its code here and carries the level of the
\* pipeline that rewrote it
run_passes(functions, level) ==
    [f \in DOMAIN functions |->
        [k \in DOMAIN functions[f] \cup {"passes"} |->
            IF k = "passes" THEN level ELSE functions[f][k]]]

\* the passes rewrite the generator's own module
optimize_in_place(g, level) ==
    IF ~ verify(g)
    THEN GenFailed(g, "RuntimeError")
    ELSE Value([g EXCEPT !.module.functions = run_passes(@, level)],
               [globals |-> g.module.globals,
                functions |-> run_passes(g.module.functions, level)])

\* optimize() parses and verifies the module text, runs the passes on the
\* parsed module and returns the text of that module
optimize(g, level) ==
    IF ~ verify(g)
    THEN GenFailed(g, "RuntimeError")
    ELSE Value(g, [globals |-> ModuleText(g).globals,
                   functions |-> run_passes(ModuleText(g).functions, level)])

\* if args.opt_level > 0: llvm_ir = codegen.optimize(args.opt_level)
CliOptimize ==
    /\ cli.at = "optimize"
    /\ IF cli.args.opt_level = 0
       THEN /\ cli' = Goto(cli, "write_ir")
            /\ codegen' = codegen
       ELSE /\ codegen' = optimize(codegen, cli.args.opt_level).g
            /\ cli' = IF codegen'.err = ""
                      THEN Goto(Enter([cli EXCEPT !.llvm_ir =
                                          optimize(codegen, cli.args.opt_level)
                                              .value],
                                      "optimize"),
                                "write_ir")
                      ELSE Exit(Enter(cli, "optimize"), "1")
    /\ UNCHANGED <<ast, pc, analyzer, lookup, files, jit, regenerated>>

CliWriteIR ==
    /\ cli.at = "write_ir"
    /\ IF cli.args.output_llvm
       THEN /\ cli' = Goto(Enter([cli EXCEPT !.saved = cli.llvm_ir], "write_ir"),
                           "emit_executable")
            /\ files' = files \cup {LlvmFile}
       ELSE /\ cli' = Goto(cli, "emit_executable")
            /\ files' = files
    /\ UNCHANGED <<ast, pc, analyzer, codegen, lookup, jit, regenerated>>

\* an exception: its class and the parts its message is formatted from
Exception(type, message) == [type |-> type, message |-> message]

\* generate_executable() raises e: main prints it and returns 1
Raised(c, e) == Exit([c EXCEPT !.raised = e], "1")

\* llvm_ir = str(self.module), written to the temporary IR file
TakenAot(c) == [c EXCEPT !.aot_ir = ModuleText(codegen)]

\* llvm_ir = str(self.module), parsed by execute()
TakenJit(c) == [c EXCEPT !.jit_ir = ModuleText(codegen)]

\* generate_executable() up to the first tool: the temporary IR file is
\* written, then llc is looked for on PATH and at the Homebrew place
CliEmitExecutable ==
    /\ cli.at = "emit_executable"
    /\ IF ~ cli.args.output_executable
       THEN /\ cli' = Goto(cli, "execute")
            /\ files' = files
       ELSE \E llc_cmd \in {"PATH", "homebrew", NotFound} :
              /\ files' = files \cup {ll_file}
              /\ cli' = IF llc_cmd = NotFound
                        THEN Raised(Enter(TakenAot(cli), "emit_executable"),
                                    Exception("CodeGenError",
                                              <<"llc not found. Please install LLVM:">>))
                        ELSE Goto(Enter(TakenAot(cli), "emit_executable"), "llc")
    /\ UNCHANGED <<ast, pc, analyzer, codegen, lookup, jit, regenerated>>

ToolOutcomes == {"0", "nonzero", "FileNotFoundError", "TimeoutExpired"}

\* what a tool wrote to its standard error
Stderrs == {"", "error: expected top-level entity", "ld: symbol(s) not found"}

\* what subprocess.run gives: a CompletedProcess with the return code and
\* the captured standard error, or an exception with no result
ToolResults ==
    [outcome : {"0", "nonzero"}, stderr : Stderrs]
    \cup [outcome : {"FileNotFoundError", "TimeoutExpired"}, stderr : {""}]

\* subprocess.run([tool, ...]) was called and gave result
Invoked(c, tool, result) ==
    [c EXCEPT !.tools = Append(@, [tool |-> tool, outcome |-> result.outcome,
                                   stderr |-> result.stderr])]

\* except FileNotFoundError: a CodeGenError that names the tools to install;
\* any other exception of subprocess.run leaves generate_executable as it is
ToolException(result) ==
    IF result.outcome = "FileNotFoundError"
    THEN Exception("CodeGenError",
                   <<"Required tool not found: ", "FileNotFoundError",
                     "To generate executables, you need:">>)
    ELSE Exception(result.outcome, <<>>)

llc_unchecked(result) ==
    IF result.outcome \in {"0", "nonzero"} THEN None ELSE ToolException(result)

\* what generate_executable() raises after the run of llc, None if nothing
llc_checked(result) ==
    CASE result.outcome = "0" -> None
      [] result.outcome = "nonzero" ->
           Exception("CodeGenError",
                     <<"llc compilation failed: ", result.stderr, "\n\n",
                       "Make sure LLVM is installed. On macOS: brew install llvm">>)
      [] OTHER -> ToolException(result)

\* what generate_executable() raises after the run of clang, None if nothing
clang_checked(result) ==
    CASE result.outcome = "0" -> None
      [] result.outcome = "nonzero" ->
           Exception("CodeGenError",
                     <<"Linking failed: ", result.stderr, "\n\n",
                       "Make sure clang is installed.">>)
      [] OTHER -> ToolException(result)

\* finally: both temporary files are removed when they exist
cleanup(fs) == fs \ {ll_file, obj_file}

\* subprocess.run of llc, inside the try; a failing or killed llc may have
\* left an object file
CliRunLlc ==
    /\ cli.at = "llc"
    /\ \E result \in ToolResults, wrote \in BOOLEAN :
         IF llc_checked(result) = None
         THEN /\ files' = files \cup {obj_file}
              /\ cli' = Goto(Invoked(cli, "llc", result), "clang")
         ELSE /\ files' = cleanup(IF wrote THEN files \cup {obj_file} ELSE files)
              /\ cli' = Raised(Invoked(cli, "llc", result), llc_checked(result))
    /\ UNCHANGED <<ast, pc, analyzer, codegen, lookup, jit, regenerated>>

\* subprocess.run of clang and the message of success, then the finally clause
CliRunClang ==
    /\ cli.at = "clang"
    /\ \E result \in ToolResults :
         IF clang_checked(result) = None
         THEN /\ files' = cleanup(files \cup {ExeFile})
              /\ cli' = Goto([Invoked(cli, "clang", result)
                                 EXCEPT !.printed = TRUE], "execute")
         ELSE /\ files' = cleanup(files)
              /\ cli' = Raised(Invoked(cli, "clang", result),
                               clang_checked(result))
    /\ UNCHANGED <<ast, pc, analyzer, codegen, lookup, jit, regenerated>>

should_run(args) ==
    args.run \/ ~ (args.output_llvm \/ args.output_executable \/ args.output_ast)

\* the JIT run; what a run that calls out or does not end in MaxSteps
\* instructions gives is the platform's to say
CliExecute ==
    /\ cli.at = "execute"
    /\ IF ~ should_run(cli.args)
       THEN /\ cli' = Exit(cli, "0")
            /\ jit' = jit
       ELSE \E platform \in Platforms, raised \in BOOLEAN :
              /\ jit' = execute(codegen, platform)
              /\ cli' = CASE jit'.status = "returned" -> Exit(Enter(TakenJit(cli), "execute"), "0")
                          [] jit'.status = "SIGFPE" -> Exit(Enter(TakenJit(cli), "execute"), "signal")
                          [] jit'.status \in {"RuntimeError", "CodeGenError"} ->
                               Exit(Enter(TakenJit(cli), "execute"), "1")
                          [] OTHER ->
                               Exit(Enter(TakenJit(cli), "execute"), IF raised THEN "1" ELSE "0")
    /\ UNCHANGED <<ast, pc, analyzer, codegen, lookup, files, regenerated>>

NextCli ==
    \/ CliParse
    \/ CliBuildAst
    \/ CliAnalyze
    \/ CliGenerate
    \/ CliOptimize
    \/ CliWriteIR
    \/ CliEmitExecutable
    \/ CliRunLlc
    \/ CliRunClang
    \/ CliExecute

SpecCli == InitCli /\ [][NextCli]_vars

PhaseOrder ==
    << "parse", "build_ast", "analyze", "generate", "optimize", "write_ir",
       "emit_executable", "execute" >>

Rank(phase) == CHOOSE i \in DOMAIN PhaseOrder : PhaseOrder[i] = phase

Ran(phase) == \E i \in DOMAIN cli.phases : cli.phases[i] = phase

\* C6: the phases run in the order parse, build AST, analyze, generate,
\* optimize, write IR, emit executable, JIT execute, none before parse, build
\* AST, analyze and generate have run before it; a failure of analyze() ends
\* the run with a nonzero status, no CodeGenerator constructed, generate()
\* not called, and no IR file or executable written.
PipelineOrdered ==
    /\ \A i, j \in DOMAIN cli.phases :
         i < j => Rank(cli.phases[i]) < Rank(cli.phases[j])
    /\ \A i \in DOMAIN cli.phases :
         \A r \in 1..4 : r < Rank(cli.phases[i]) => Ran(PhaseOrder[r])
    /\ (LlvmFile \in files => Ran("write_ir"))
    /\ (files \cap {ExeFile, ll_file, obj_file} # {} => Ran("emit_executable"))
    /\ (jit # JitIdle => Ran("execute"))
    /\ (codegen # None => (Ran("generate") /\ analyzer.err = ""))
    /\ analyzer.err # "" =>
         /\ cli.at = "exit"
         /\ cli.status = "1"
         /\ codegen = None
         /\ ~ Ran("generate")
         /\ files \cap {LlvmFile, ExeFile, ll_file, obj_file} = {}
         /\ jit = JitIdle

\* a read of an undeclared variable in the entry function, every output asked
PipelineWitness ==
    /\ analyzer.err = "UndeclaredIdentifier"
    /\ cli.args.output_llvm
    /\ cli.args.output_executable
    /\ cli.args.run
    /\ cli.phases = <<"parse", "build_ast", "analyze">>
    /\ cli.status = "1"

\* C7: when generate_executable() has returned or raised, on every path,
\* neither the temporary IR file nor the temporary object file exists.
TemporaryFilesRemoved ==
    cli.at \notin {"llc", "clang"} => files \cap {ll_file, obj_file} = {}

(***************************************************************************)
(* Compilation of programs over the four types: stores, binary operations, *)
(* calls, returns and loops, with operands of every type.                  *)
(***************************************************************************)
\* one literal of each literal type
Literals ==
    { Literal(1, "int"), Literal(2, "float"), Literal(0, "string"),
      Literal(1, "bool") }

\* the literal whose Confuc-IO type is t
LiteralOf(t) == CHOOSE l \in Literals : visit_Literal(SemanticAnalyzer, l).type = t

Main(return_type, body) ==
    FunctionDef(return_type, MAIN_FUNCTION_NAME, <<>>, body)

StoreBodies ==
    { <<VarDeclaration(t, "v", e)>> : t \in Types, e \in Literals \cup {None} }
    \cup { <<VarDeclaration(t, "v", None), Assignment("v", e)>> :
             t \in Types, e \in Literals }

\* the operators of the language and operators it does not have
AnyOperators ==
    DictKeys(OPERATOR_MAPPINGS) \cup {"-", "*", ">", "<", "==", "||", "&&"}

idA == Identifier("a")
idB == Identifier("b")

BinaryOpBodies ==
    { <<VarDeclaration(t, "r", BinaryOp(op, l, r))>> :
        t \in Types, op \in AnyOperators, l \in Literals, r \in Literals }
    \cup { <<VarDeclaration(t, "a", LiteralOf(t)),
             VarDeclaration(t, "b", LiteralOf(t)),
             ReturnStatement(BinaryOp(op, idA, idB))>> :
             t \in Types, op \in {"/", "@@"} }

ReturnBodies(t) ==
    { <<>>,
      <<VarDeclaration(t, "v", LiteralOf(t))>>,
      <<ReturnStatement(LiteralOf(t))>>,
      <<IfStatement(true, <<ReturnStatement(LiteralOf(t))>>, <<>>)>>,
      <<IfStatement(true, <<ReturnStatement(LiteralOf(t))>>,
                    <<ReturnStatement(LiteralOf(t))>>)>>,
      <<WhileLoop(true, <<ReturnStatement(LiteralOf(t))>>)>> }

LoopBodies ==
    { <<WhileLoop(c, <<>>)>> :
        c \in Literals \cup {BinaryOp("#", Literal(1, "int"), Literal(1, "int"))} }
    \cup { <<VarDeclaration(t, "c", LiteralOf(t)),
             WhileLoop(Identifier("c"), <<Assignment("c", LiteralOf(t))>>)>> :
             t \in Types }

\* f(x, s) calls itself
fTwo ==
    FunctionDef("Float", "f", <<xFloat, Parameter("int", "s")>>,
                <<ReturnStatement(FunctionCall("f", <<idX, Identifier("s")>>))>>)

CallArguments == { Literal(1, "int"), Literal(0, "string"), Identifier("u") }

MaxArguments == 3

CallBodies ==
    { <<VarDeclaration(t, "r", FunctionCall(name, arguments))>> :
        t \in {"Float", "int"}, name \in {"f", "h"},
        arguments \in SeqsUpTo(CallArguments, MaxArguments) }

\* two functions with a parameter x, then an entry function declaring x
ScopePrograms ==
    { Program(<<FunctionDef("Float", "f", <<xFloat>>, body),
                FunctionDef("Float", "g", <<xFloat>>, <<ReturnStatement(idX)>>),
                Main("Float", <<VarDeclaration("Float", "x", int10)>>)>>) :
        body \in { <<>>, <<VarDeclaration("Float", "y", None)>>,
                   <<VarDeclaration("Float", "x", int5)>> } }

\* a return of a literal of any type, of nothing, of an undeclared variable,
\* of an ill-typed sum
AnyReturnBodies ==
    { <<ReturnStatement(e)>> :
        e \in Literals \cup { None, Identifier("u"),
                              BinaryOp("/", Literal(1, "int"),
                                       Literal(0, "string")) } }

\* x declared with an initializer, new or after an earlier declaration of x
RedeclarationBodies ==
    { prelude \o <<VarDeclaration("Float", "x", e)>> :
        prelude \in { <<>>, <<VarDeclaration("Float", "x", int10)>>,
                      <<VarDeclaration("Float", "x", None)>> },
        e \in { idX, idY, int5, Literal(0, "string"),
                BinaryOp("/", int5, Literal(0, "string")) } }

TypedPrograms ==
    { Program(<<Main("Float", body)>>) :
        body \in StoreBodies \cup BinaryOpBodies \cup LoopBodies
                     \cup RedeclarationBodies }
    \cup { Program(<<Main(t, body)>>) : t \in Types, body \in AnyReturnBodies }
    \cup UNION { { Program(<<Main(t, body)>>) : body \in ReturnBodies(t) } :
                   t \in Types }
    \cup UNION { { Program(<<FunctionDef(t, "f", <<>>, body), Main("Float", <<>>)>>) :
                     body \in ReturnBodies(t) } : t \in Types }
    \cup UNION { { Program(<<Main("Float", body), fTwo>>),
                   Program(<<fTwo, Main("Float", body)>>) } : body \in CallBodies }
    \cup ScopePrograms

InitTyped ==
    /\ ast \in TypedPrograms
    /\ pc = At("analyze", 0, 0)
    /\ analyzer = SemanticAnalyzer
    /\ codegen = CodeGenerator
    /\ lookup = LookupIdle
    /\ cli = CliIdle
    /\ files = {}
    /\ jit = JitIdle
    /\ regenerated = None

SpecTyped == InitTyped /\ [][Next]_vars

(***************************************************************************)
(* Properties of the analysis of the typed programs.                       *)
(***************************************************************************)
Symbols == analyzer.symbol_table.symbols

ParameterNames(func) == { func.parameters[i].name : i \in DOMAIN func.parameters }

DistinctParameters(func) ==
    \A i, j \in DOMAIN func.parameters :
        func.parameters[i].name = func.parameters[j].name => i = j

\* C11: analyze_function leaves the variable table as it found it: between
\* two functions and after the last one the table is the one saved when the
\* function was entered, the parameters of the function just analyzed are
\* not declared, and entering a function whose parameter names are distinct
\* never fails, whatever the earlier functions declared.
VariablesRestored ==
    /\ [](pc.at \notin {"analyze_body", "semantic_error"} =>
            /\ Symbols = analyzer.saved_variables
            /\ Symbols = EmptyDict)
    /\ [](pc.at = "analyze_function" /\ pc.func > 1 =>
            ParameterNames(ast.functions[pc.func - 1]) \cap DOMAIN Symbols = {})
    /\ [][pc.at = "analyze_function" /\ DistinctParameters(ast.functions[pc.func])
            => /\ analyzer'.err = ""
               /\ ParameterNames(ast.functions[pc.func])
                      \subseteq DOMAIN analyzer'.symbol_table.symbols]_vars

\* the third function is entered after two functions that declared x
VariablesRestoredWitness ==
    /\ pc = At("analyze_function", 3, 0)
    /\ Symbols = EmptyDict
    /\ Cardinality({ i \in DOMAIN analyzer.events :
                       /\ analyzer.events[i].event = "declare"
                       /\ analyzer.events[i].namespace = "variable"
                       /\ analyzer.events[i].name = "x"
                       /\ ~ analyzer.events[i].duplicate }) >= 2

\* a declaration or a read of the history that raised
Failing(e) ==
    \/ e.event = "declare" /\ e.duplicate
    \/ e.event = "read" /\ e.outcome \in {"UndeclaredIdentifier", "UseBeforeInit"}

\* the error a failing declaration or read raises (AttributeError when the
\* message of a duplicate function is built)
ErrorsOf(e) ==
    IF e.event = "read" THEN {e.outcome}
    ELSE IF e.namespace = "function" THEN {"DuplicateDeclaration", "AttributeError"}
    ELSE {"DuplicateDeclaration"}

\* C12: analysis fails fast: an error ends the analysis at once, it is the
\* error raised at the first violating node in traversal order (a failing
\* declaration or read is the last one made, and its error is the one
\* reported), no node is visited after it, and the analyzer, its symbol table
\* included, is never changed again.
FailFast ==
    /\ [](analyzer.err # "" <=> pc.at = "semantic_error")
    /\ [](\A i \in DOMAIN analyzer.events :
            Failing(analyzer.events[i]) =>
                /\ i = Len(analyzer.events)
                /\ analyzer.err \in ErrorsOf(analyzer.events[i]))
    /\ [][analyzer.err # "" => analyzer' = analyzer]_vars

\* the condition of a loop reads an undeclared variable: the body of the
\* loop, which reads it again, and the declaration after the loop are skipped
FailFastWitness ==
    /\ pc.at = "semantic_error"
    /\ analyzer.err = "UndeclaredIdentifier"
    /\ Failing(analyzer.events[Len(analyzer.events)])
    /\ Cardinality({ i \in DOMAIN analyzer.events :
                       analyzer.events[i].event = "read" }) = 1
    /\ "y" \notin analyzer.ever
    /\ ast.functions[1].body = <<WhileLoop(idX, <<ReturnStatement(idX)>>),
                                 VarDeclaration("Float", "y", int5)>>

RECURSIVE Initializes(_, _)

\* stmt holds an Assignment to name or an InputStatement of name
Initializes(stmt, name) ==
    CASE stmt.kind \in {"Assignment"} -> stmt.name = name
      [] stmt.kind = "InputStatement" -> stmt.variable_name = name
      [] stmt.kind = "IfStatement" ->
           \/ \E i \in DOMAIN stmt.then_body : Initializes(stmt.then_body[i], name)
           \/ \E i \in DOMAIN stmt.else_body : Initializes(stmt.else_body[i], name)
      [] stmt.kind = "WhileLoop" ->
           \E i \in DOMAIN stmt.body : Initializes(stmt.body[i], name)
      [] stmt.kind = "ForLoop" ->
           \/ Initializes(stmt.init, name)
           \/ Initializes(stmt.update, name)
           \/ \E i \in DOMAIN stmt.body : Initializes(stmt.body[i], name)
      [] OTHER -> FALSE

\* C13: while the statements of one function body are analyzed, a symbol
\* stays in the table with its name, type and line, its initialized flag
\* never goes back to false, and the flag becomes true only in a statement
\* that holds an Assignment to the symbol or an InputStatement of it.
InitializedMonotonic ==
    [][pc.at = "analyze_body" /\ pc.stmt <= Len(ast.functions[pc.func].body) =>
         \A name \in DOMAIN Symbols :
             /\ name \in DOMAIN analyzer'.symbol_table.symbols
             /\ analyzer'.symbol_table.symbols[name].name = Symbols[name].name
             /\ analyzer'.symbol_table.symbols[name].type = Symbols[name].type
             /\ analyzer'.symbol_table.symbols[name].line = Symbols[name].line
             /\ Symbols[name].is_initialized
                    => analyzer'.symbol_table.symbols[name].is_initialized
             /\ analyzer'.symbol_table.symbols[name].is_initialized
                    # Symbols[name].is_initialized
                    => Initializes(ast.functions[pc.func].body[pc.stmt], name)]_vars

\* x was declared without initializer, then read into
InitializedWitness ==
    /\ pc = At("analyze_body", 1, 3)
    /\ ast.functions[1].body = <<VarDeclaration("Float", "x", None),
                                 InputStatement("x")>>
    /\ is_initialized(analyzer, "x")

\* the statement the analysis visits next
Visited == ast.functions[pc.func].body[pc.stmt]

VisitsStatement ==
    pc.at = "analyze_body" /\ pc.stmt <= Len(ast.functions[pc.func].body)

\* the Confuc-IO type of a literal, by the reverse type table
TypeOfLiteral(lit) == DictGet(TYPE_REVERSE, lit.literal_type)

\* C14: stores are strictly typed: a VarDeclaration of a new variable with a
\* literal initializer and an Assignment of a literal to a declared variable
\* are accepted exactly when the literal's type is the variable's declared
\* type and fail with TypeMismatch for every other pair of types; on
\* acceptance the variable is initialized; a VarDeclaration without
\* initializer declares the variable uninitialized.
StoresStrictlyTyped ==
    [][VisitsStatement =>
         /\ (/\ Visited.kind = "VarDeclaration"
             /\ Visited.var_type \in Types
             /\ Visited.name \notin DOMAIN Symbols
             /\ Visited.initializer = None)
            => /\ analyzer'.err = ""
               /\ analyzer'.symbol_table.symbols
                    = DictPut(Symbols, Visited.name,
                              SymbolInfo(Visited.name, Visited.var_type, FALSE, 0))
         /\ (/\ Visited.kind = "VarDeclaration"
             /\ Visited.var_type \in Types
             /\ Visited.name \notin DOMAIN Symbols
             /\ Visited.initializer.kind = "Literal")
            => IF TypeOfLiteral(Visited.initializer) = Visited.var_type
               THEN /\ analyzer'.err = ""
                    /\ analyzer'.symbol_table.symbols
                         = DictPut(Symbols, Visited.name,
                                   SymbolInfo(Visited.name, Visited.var_type,
                                              TRUE, 0))
               ELSE /\ analyzer'.err = "TypeMismatch"
                    /\ analyzer'.symbol_table.symbols = Symbols
         /\ (/\ Visited.kind = "Assignment"
             /\ Visited.name \in DOMAIN Symbols
             /\ Visited.value.kind = "Literal")
            => IF TypeOfLiteral(Visited.value) = Symbols[Visited.name].type
               THEN /\ analyzer'.err = ""
                    /\ analyzer'.symbol_table.symbols
                         = [Symbols EXCEPT ![Visited.name].is_initialized = TRUE]
               ELSE /\ analyzer'.err = "TypeMismatch"
                    /\ analyzer'.symbol_table.symbols = Symbols]_vars

\* a variable of the float type declared without initializer, then assigned
\* a float literal
StoresWitness ==
    /\ pc = At("analyze_body", 1, 3)
    /\ ast.functions[1].body = <<VarDeclaration("String", "v", None),
                                 Assignment("v", Literal(2, "float"))>>
    /\ Symbols["v"] = SymbolInfo("v", "String", TRUE, 0)

\* the declaration of a new variable initialized with a binary operation on
\* two literals
DeclaresBinaryOp ==
    /\ VisitsStatement
    /\ Visited.kind = "VarDeclaration"
    /\ Visited.var_type \in Types
    /\ Visited.name \notin DOMAIN Symbols
    /\ Visited.initializer.kind = "BinaryOp"
    /\ Visited.initializer.left.kind = "Literal"
    /\ Visited.initializer.right.kind = "Literal"

\* C15: a BinaryOp on well-typed operands: with an arithmetic-class operator
\* the analysis fails with TypeMismatch unless both operand types are equal,
\* and the result has the operands' type (the store into a variable is
\* accepted exactly for that type); with a comparison-class operator the
\* operation is accepted for every pair of operand types and its result has
\* the type While.
BinaryOpTyped ==
    [][DeclaresBinaryOp =>
         /\ Visited.initializer.operator \in {"/", "~", "+", "Bool"}
            => (analyzer'.err = ""
                  <=> /\ TypeOfLiteral(Visited.initializer.left)
                           = TypeOfLiteral(Visited.initializer.right)
                      /\ Visited.var_type
                           = TypeOfLiteral(Visited.initializer.left))
               /\ analyzer'.err \in {"", "TypeMismatch"}
         /\ Visited.initializer.operator \in {"=", "#", "@@"}
            => (analyzer'.err = "" <=> Visited.var_type = "While")
               /\ analyzer'.err \in {"", "TypeMismatch"}]_vars

\* an integer compared with a string, stored in a boolean variable
BinaryOpTypedWitness ==
    /\ pc = At("analyze_body", 1, 2)
    /\ ast.functions[1].body =
           <<VarDeclaration("While", "r",
                            BinaryOp("=", Literal(1, "int"), Literal(0, "string")))>>
    /\ Symbols["r"] = SymbolInfo("r", "While", TRUE, 0)

\* the declaration of a new variable initialized with a call whose
\* arguments are literals and undeclared identifiers
DeclaresCall ==
    /\ VisitsStatement
    /\ Visited.kind = "VarDeclaration"
    /\ Visited.var_type \in Types
    /\ Visited.name \notin DOMAIN Symbols
    /\ Visited.initializer.kind = "FunctionCall"
    /\ \A i \in DOMAIN Visited.initializer.arguments :
         \/ Visited.initializer.arguments[i].kind = "Literal"
         \/ /\ Visited.initializer.arguments[i].kind = "Identifier"
            /\ Visited.initializer.arguments[i].name \notin DOMAIN Symbols

\* the function of the program named name
Callee(name) ==
    ast.functions[CHOOSE i \in DOMAIN ast.functions : ast.functions[i].name = name]

\* the error of one argument against its parameter, "" when it fits
ArgumentError(argument, parameter) ==
    IF argument.kind = "Identifier" THEN "UndeclaredIdentifier"
    ELSE IF TypeOfLiteral(argument) # parameter.param_type THEN "TypeMismatch"
    ELSE ""

\* the first argument, left to right, that does not fit its parameter
\* (0 when all fit)
FirstMisfit(arguments, parameters) ==
    IF \A i \in DOMAIN arguments : ArgumentError(arguments[i], parameters[i]) = ""
    THEN 0
    ELSE CHOOSE i \in DOMAIN arguments :
             /\ ArgumentError(arguments[i], parameters[i]) # ""
             /\ \A j \in 1..(i - 1) : ArgumentError(arguments[j], parameters[j]) = ""

\* the error of a call stored into a variable of type var_type
CallError(call_node, var_type) ==
    IF call_node.function_name \notin FunctionNames(ast)
    THEN "UndeclaredIdentifier"
    ELSE IF Len(call_node.arguments)
              # Len(Callee(call_node.function_name).parameters)
    THEN "ArityMismatch"
    ELSE IF FirstMisfit(call_node.arguments,
                        Callee(call_node.function_name).parameters) # 0
    THEN ArgumentError(
             call_node.arguments[
                 FirstMisfit(call_node.arguments,
                             Callee(call_node.function_name).parameters)],
             Callee(call_node.function_name).parameters[
                 FirstMisfit(call_node.arguments,
                             Callee(call_node.function_name).parameters)])
    ELSE IF Callee(call_node.function_name).return_type # var_type
    THEN "TypeMismatch"
    ELSE ""

Reads(an) == { i \in DOMAIN an.events : an.events[i].event = "read" }

\* C16: a FunctionCall fails with UndeclaredIdentifier when the program has
\* no function of that name, else with ArityMismatch when the argument count
\* differs from the parameter count, before any argument is analyzed, else
\* with the error of the first argument, left to right, that does not fit
\* its parameter (TypeMismatch for another type), no later argument being
\* analyzed, else it has the callee's return type; a call of a function
\* defined later in the program and a recursive call are accepted.
CallsChecked ==
    [][/\ DeclaresCall
          => /\ analyzer'.err = CallError(Visited.initializer, Visited.var_type)
             /\ Cardinality(Reads(analyzer')) =
                    Cardinality(Reads(analyzer))
                    + (IF analyzer'.err = "UndeclaredIdentifier"
                          /\ Visited.initializer.function_name
                                \in FunctionNames(ast)
                       THEN 1 ELSE 0)
       /\ (/\ VisitsStatement
           /\ Visited.kind = "ReturnStatement"
           /\ Visited.value.kind = "FunctionCall"
           /\ Visited.value.function_name = ast.functions[pc.func].name
           /\ Visited.value.arguments =
                  [i \in DOMAIN ast.functions[pc.func].parameters |->
                      Identifier(ast.functions[pc.func].parameters[i].name)])
          => analyzer'.err = ""]_vars

\* the entry function calls f, defined after it, which calls itself
CallsWitness ==
    /\ pc.at = "analyzed"
    /\ ast = Program(<<Main("Float",
                            <<VarDeclaration("Float", "r",
                                  FunctionCall("f", <<Literal(1, "int"),
                                                      Literal(0, "string")>>))>>),
                       fTwo>>)

(***************************************************************************)
(* Properties of the code generated for the typed programs.                *)
(***************************************************************************)
\* the instructions of the emitted functions, as <<function, block, index>>
Emitted ==
    UNION { UNION { { <<f, b, i>> :
                        i \in DOMAIN codegen.module.functions[f].blocks[b]
                                         .instructions } :
                    b \in DOMAIN codegen.module.functions[f].blocks } :
            f \in DOMAIN codegen.module.functions }

InstructionAt(at) ==
    codegen.module.functions[at[1]].blocks[at[2]].instructions[at[3]]

\* C17: when generate() has returned, every return of every emitted
\* function, the one synthesized at the end of a body without return
\* included, returns a value of the function's return type: integer 0,
\* float 0.0, boolean false, or a string pointer.
ReturnsTyped ==
    pc.at = "generated" =>
        \A at \in Emitted :
            InstructionAt(at).opcode \in {"ret", "ret void"} =>
                /\ InstructionAt(at).opcode = "ret"
                /\ InstructionAt(at).operands[1].type
                       = codegen.module.functions[at[1]].return_type

BlockOf(at) == codegen.module.functions[at[1]].blocks[at[2]]

\* C18: when generate() has returned, the condition operand of the
\* conditional branch of every while.cond block has the boolean type i1: a
\* condition of an integer, float or string-pointer type was compared with
\* the zero of its type first.
WhileConditionBoolean ==
    pc.at = "generated" =>
        \A at \in Emitted :
            (BlockOf(at).name.name = "while.cond" /\ InstructionAt(at).opcode = "cbr")
                => InstructionAt(at).operands[1].type = IntType(1)

\* the statement the generation translates next
Translated == ast.functions[pc.func].body[pc.stmt]

TranslatesStatement ==
    pc.at = "generate_body" /\ pc.stmt <= Len(ast.functions[pc.func].body)

\* the arithmetic and comparison instructions of the module g
Computations(g) ==
    UNION { UNION { { <<f, b, i>> :
                        i \in { j \in DOMAIN g.module.functions[f].blocks[b]
                                              .instructions :
                                 g.module.functions[f].blocks[b].instructions[j]
                                     .opcode
                                 \in {"add", "sub", "mul", "sdiv", "icmp >",
                                      "icmp <", "icmp ==", "icmp !="} } } :
                    b \in DOMAIN g.module.functions[f].blocks } :
            f \in DOMAIN g.module.functions }

\* C19: the declaration of a variable initialized with a BinaryOp on two
\* literals whose surface operator has no entry in OPERATOR_MAPPINGS makes
\* the generation fail with UnsupportedOperator, and no arithmetic or
\* comparison instruction is emitted for it.
UnmappedOperatorUnsupported ==
    [][(/\ TranslatesStatement
        /\ Translated.kind = "VarDeclaration"
        /\ Translated.initializer.kind = "BinaryOp"
        /\ Translated.initializer.left.kind = "Literal"
        /\ Translated.initializer.right.kind = "Literal"
        /\ ~ DictHas(OPERATOR_MAPPINGS, Translated.initializer.operator))
       => /\ codegen'.err = "UnsupportedOperator"
          /\ Computations(codegen') = Computations(codegen)]_vars

\* the instructions a step appends to the block the builder stays in
Added ==
    SubSeq(CurrentBlock(codegen').instructions,
           Len(CurrentBlock(codegen).instructions) + 1,
           Len(CurrentBlock(codegen').instructions))

Opcodes(instructions) == [i \in DOMAIN instructions |-> instructions[i].opcode]

\* return a / b, for two initialized variables a and b of type t
ReturnsSum(t) ==
    /\ TranslatesStatement
    /\ Translated = ReturnStatement(BinaryOp("/", idA, idB))
    /\ {"a", "b"} \subseteq DOMAIN codegen.variables
    /\ codegen.variables["a"].type = PointerType(get_llvm_type(t))
    /\ codegen.variables["b"].type = PointerType(get_llvm_type(t))

\* C20: the surface operator '/' (addition) on two string pointers emits no
\* add of the operands but, in this order, strlen of left, strlen of right,
\* the sum of the lengths, that sum plus 1, malloc of that size, strcpy of
\* left into the buffer and strcat of right onto it, and its value is the
\* buffer; on operands of any other type it emits one add of the operands.
StringsConcatenated ==
    [][/\ ReturnsSum("int")
          => /\ codegen'.err = ""
             /\ Opcodes(Added) =
                    <<"load", "load", "call strlen", "call strlen", "add", "add",
                      "call malloc", "call strcpy", "call strcat", "ret">>
             /\ Added[3].operands = <<Added[1].result>>
             /\ Added[4].operands = <<Added[2].result>>
             /\ Added[5].operands = <<Added[3].result, Added[4].result>>
             /\ Added[6].operands = <<Added[5].result, Constant(IntType(64), 1)>>
             /\ Added[7].operands = <<Added[6].result>>
             /\ Added[8].operands = <<Added[7].result, Added[1].result>>
             /\ Added[9].operands = <<Added[7].result, Added[2].result>>
             /\ Added[10].operands = <<Added[7].result>>
       /\ \A t \in Types \ {"int"} :
            ReturnsSum(t)
            => /\ codegen'.err = ""
               /\ Opcodes(Added) = <<"load", "load", "add", "ret">>
               /\ Added[3].operands = <<Added[1].result, Added[2].result>>
               /\ Added[4].operands = <<Added[3].result>>]_vars

\* the sum of two string variables was translated
StringsWitness ==
    /\ pc = At("generate_body", 1, 4)
    /\ ast.functions[1].body[3] = ReturnStatement(BinaryOp("/", idA, idB))
    /\ ast.functions[1].body[1] = VarDeclaration("int", "a", Literal(0, "string"))
    /\ \E i \in DOMAIN CurrentBlock(codegen).instructions :
         CurrentBlock(codegen).instructions[i].opcode = "call strcat"

(***************************************************************************)
(* The generator's variable map across functions.                          *)
(***************************************************************************)
\* the stack slots of the function being generated: the results of the
\* allocas of its blocks, by the name each was allocated for
Allocated(g, name) ==
    UNION { { CurrentFunction(g).blocks[b].instructions[i].result :
                i \in { j \in DOMAIN CurrentFunction(g).blocks[b].instructions :
                          /\ CurrentFunction(g).blocks[b].instructions[j].opcode
                                 = "alloca"
                          /\ CurrentFunction(g).blocks[b].instructions[j].name
                                 = name } } :
            b \in DOMAIN CurrentFunction(g).blocks }

\* generate_function() is about to emit the first statement of the body
BodyStarts == pc.at = "generate_body" /\ pc.stmt = 1

\* C21: the variable map is per function: when the emission of a body
\* starts the map holds exactly the parameters of that function, two
\* parameters never share a slot, and all through the body every slot of the
\* map was allocated in the function being generated, under the name it is
\* registered for.
VariablesPerFunction ==
    /\ BodyStarts =>
         /\ DOMAIN codegen.variables = ParameterNames(ast.functions[pc.func])
         /\ \A a, b \in DOMAIN codegen.variables :
                codegen.variables[a] = codegen.variables[b] => a = b
    /\ pc.at = "generate_body" =>
         \A name \in DOMAIN codegen.variables :
             codegen.variables[name] \in Allocated(codegen, name)

\* the body of a function without parameters starts after a function with
\* two parameters was generated
VariablesPerFunctionWitness ==
    /\ BodyStarts
    /\ pc.func = 2
    /\ ast.functions[1] = fTwo
    /\ Len(codegen.module.functions[1].blocks[1].instructions) >= 4
    /\ codegen.variables = EmptyDict

(***************************************************************************)
(* The tools of the AOT path.                                              *)
(***************************************************************************)
\* the remediation each failure message ends with
Remediation(tool) ==
    IF tool = "llc"
    THEN "Make sure LLVM is installed. On macOS: brew install llvm"
    ELSE "Make sure clang is installed."

\* the run of tool that returned exit code 0
Succeeded(tool) ==
    \E i \in DOMAIN cli.tools :
        cli.tools[i].tool = tool /\ cli.tools[i].outcome = "0"

\* C22: clang is invoked only after llc returned exit code 0, as the second
\* and last tool; a nonzero exit of llc or clang raises a CodeGenError whose
\* message holds the standard error the tool wrote, unchanged, and the
\* remediation for that tool; the message of success is printed exactly when
\* both tools returned 0.
LinkerAfterAssembler ==
    /\ \A i \in DOMAIN cli.tools :
         /\ cli.tools[i].tool = "clang" =>
              /\ i = 2
              /\ cli.tools[1].tool = "llc"
              /\ cli.tools[1].outcome = "0"
         /\ cli.tools[i].tool = "llc" => i = 1
         /\ cli.tools[i].outcome = "nonzero" =>
              /\ i = Len(cli.tools)
              /\ cli.raised # None
              /\ cli.raised.type = "CodeGenError"
              /\ \E k \in DOMAIN cli.raised.message :
                     cli.raised.message[k] = cli.tools[i].stderr
              /\ \E k \in DOMAIN cli.raised.message :
                     cli.raised.message[k] = Remediation(cli.tools[i].tool)
              /\ cli.status = "1"
    /\ cli.printed <=> (Succeeded("llc") /\ Succeeded("clang"))

\* llc returned 0 with a warning, then clang failed with an error of its own
LinkerAfterAssemblerWitness ==
    /\ Len(cli.tools) = 2
    /\ cli.tools[1] = [tool |-> "llc", outcome |-> "0",
                       stderr |-> "error: expected top-level entity"]
    /\ cli.tools[2] = [tool |-> "clang", outcome |-> "nonzero",
                       stderr |-> "ld: symbol(s) not found"]
    /\ cli.raised.message[2] = "ld: symbol(s) not found"
    /\ ~ cli.printed

(***************************************************************************)
(* The names the generator looks up.                                       *)
(***************************************************************************)
\* C23: for every program analyze() accepts, each variable the generator
\* looks up (the load of an Identifier, the target of an Assignment or of an
\* InputStatement) is registered in the variable map at the lookup: no
\* lookup of self.variables raises KeyError.
LookupsRegistered == pc.at = "codegen_error" => codegen.err # "KeyError"

(***************************************************************************)
(* Initialization inside branches and loops: the entry function declares   *)
(* x without initializer, runs one compound statement, then reads x.       *)
(***************************************************************************)
storeX == Assignment("x", int20)

FlowStatements ==
    { IfStatement(true, <<storeX>>, <<>>),
      IfStatement(true, <<>>, <<storeX>>),
      IfStatement(true, <<InputStatement("x")>>, <<>>),
      IfStatement(true, <<storeX>>, <<ReturnStatement(idX)>>),
      IfStatement(true, <<ReturnStatement(idX)>>, <<storeX>>),
      IfStatement(true, <<>>, <<>>),
      IfStatement(true, <<>>, <<WhileLoop(true, <<InputStatement("x")>>)>>),
      WhileLoop(true, <<storeX>>),
      WhileLoop(true, <<>>),
      WhileLoop(BinaryOp("#", idX, int10), <<storeX>>),
      ForLoop(VarDeclaration("Float", "y", int10), BinaryOp("#", idY, int20),
              Assignment("y", BinaryOp("/", idY, int5)), <<storeX>>),
      ForLoop(VarDeclaration("Float", "y", int10), BinaryOp("#", idY, int20),
              Assignment("y", BinaryOp("/", idY, int5)), <<>>),
      storeX,
      VarDeclaration("Float", "y", int10) }

FlowReads ==
    { ReturnStatement(idX), PrintStatement(<<idX>>),
      Assignment("x", BinaryOp("/", idX, int5)) }

FlowPrograms ==
    { Program(<<Main("Float", <<VarDeclaration("Float", "x", None), stmt, read>>)>>) :
        stmt \in FlowStatements, read \in FlowReads }

InitFlow ==
    /\ ast \in FlowPrograms
    /\ pc = At("analyze", 0, 0)
    /\ analyzer = SemanticAnalyzer
    /\ codegen = CodeGenerator
    /\ lookup = LookupIdle
    /\ cli = CliIdle
    /\ files = {}
    /\ jit = JitIdle
    /\ regenerated = None

SpecFlow == InitFlow /\ [][Next]_vars

Compound == {"IfStatement", "WhileLoop", "ForLoop"}

\* the last identifier read of the analysis
LastRead ==
    analyzer.events[CHOOSE i \in DOMAIN analyzer.events :
                        /\ analyzer.events[i].event = "read"
                        /\ \A j \in DOMAIN analyzer.events :
                               analyzer.events[j].event = "read" => j <= i]

\* C24: the initialization check is flow-insensitive: once analysis has
\* visited an if statement or a loop that holds, in a branch or a body, an
\* Assignment to a declared variable or an InputStatement of it, the
\* variable counts as initialized and a read of it after the statement is
\* accepted; a variable the statement holds no store for keeps its flag;
\* and analysis of such a program fails only at a read that is visited, in
\* traversal order, before the first store.
FlowInsensitive ==
    /\ [][/\ pc.at = "analyze_body"
          /\ pc.stmt <= Len(ast.functions[pc.func].body)
          /\ ast.functions[pc.func].body[pc.stmt].kind \in Compound
          /\ analyzer'.err = ""
          => \A name \in DOMAIN Symbols :
                 IF Initializes(ast.functions[pc.func].body[pc.stmt], name)
                 THEN /\ is_initialized(analyzer', name)
                      /\ visit_Identifier(analyzer', Identifier(name)).an.err = ""
                 ELSE is_initialized(analyzer', name)
                          = is_initialized(analyzer, name)]_vars
    /\ [](/\ pc.at = "semantic_error"
          /\ ast.functions[1].body[2].kind \in Compound
          /\ Initializes(ast.functions[1].body[2], "x")
          => /\ ~ analyzer.events[Len(analyzer.events)].initialized
             /\ analyzer.events[Len(analyzer.events)].outcome = "UseBeforeInit"
             /\ ~ is_initialized(analyzer, "x"))

\* the only store to x lies in the else branch; the read after the if
\* statement was accepted
FlowInsensitiveWitness ==
    /\ pc = At("analyze_body", 1, 4)
    /\ ast.functions[1].body[2] = IfStatement(true, <<>>, <<storeX>>)
    /\ ast.functions[1].body[3] = ReturnStatement(idX)
    /\ LastRead.name = "x"
    /\ LastRead.initialized
    /\ LastRead.outcome = "Float"

(***************************************************************************)
(* The operator classes of the analyzer against the mapping table and the  *)
(* generator.                                                              *)
(***************************************************************************)
\* the operators visit_BinaryOp compares the operand types for
ArithmeticClass ==
    { op \in AnyOperators :
        visit_BinaryOp(SemanticAnalyzer,
                       BinaryOp(op, Literal(1, "int"), Literal(0, "string")))
            .an.err = "TypeMismatch" }

\* the operators visit_BinaryOp gives the type While whatever the operands
ComparisonClass ==
    { op \in AnyOperators :
        visit_BinaryOp(SemanticAnalyzer,
                       BinaryOp(op, Literal(1, "int"), Literal(0, "string")))
            .type = "While" }

\* the opcodes generate_binary_op computes its value with
OperationOpcodes ==
    {"add", "sub", "mul", "sdiv", "icmp >", "icmp <", "icmp ==", "call strcat"}

\* C25: every operator the analyzer treats as arithmetic-class maps to one
\* of '+', '-', '*', '/', every operator it treats as comparison-class maps
\* to one of '>', '<', '=='; and for an accepted declaration initialized
\* with a BinaryOp of either class on two literals generate_binary_op raises
\* nothing and emits the instruction of the operation.
OperatorClassesAgree ==
    /\ [](\A op \in ArithmeticClass :
              DictGet(OPERATOR_MAPPINGS, op) \in {"+", "-", "*", "/"})
    /\ [](\A op \in ComparisonClass :
              DictGet(OPERATOR_MAPPINGS, op) \in {">", "<", "=="})
    /\ [][(/\ TranslatesStatement
           /\ Translated.kind = "VarDeclaration"
           /\ Translated.initializer.kind = "BinaryOp"
           /\ Translated.initializer.left.kind = "Literal"
           /\ Translated.initializer.right.kind = "Literal"
           /\ Translated.initializer.operator
                  \in ArithmeticClass \cup ComparisonClass)
          => /\ codegen'.err = ""
             /\ \E i \in DOMAIN Added : Added[i].opcode \in OperationOpcodes]_vars

\* While r = 1.0 @@ 1.0 was translated: a comparison of two doubles
OperatorClassesWitness ==
    /\ pc = At("generate_body", 1, 2)
    /\ ast.functions[1].body =
           <<VarDeclaration("While", "r",
                            BinaryOp("@@", Literal(2, "float"), Literal(2, "float")))>>
    /\ "@@" \in ComparisonClass
    /\ "Bool" \in ArithmeticClass
    /\ \E i \in DOMAIN CurrentBlock(codegen).instructions :
           CurrentBlock(codegen).instructions[i].opcode = "icmp =="

(***************************************************************************)
(* The module text each consumer takes.                                    *)
(***************************************************************************)
\* str(self.module) when generate() returned
GeneratedText == ModuleText(generate(CodeGenerator, ast))

\* C26: optimize(level) leaves the generator's module as it is: the text
\* generate_executable() writes to its temporary file and the text execute()
\* parses are the text generate() produced, at every optimization level, and
\* the text saved with --output-llvm is the one optimize() returned: it
\* carries the level when the level is above 0 and is the generated text
\* otherwise.
OptimizeLeavesModule ==
    /\ [][cli.at = "optimize" => ModuleText(codegen') = ModuleText(codegen)]_vars
    /\ [](cli.aot_ir # None => cli.aot_ir = GeneratedText)
    /\ [](cli.jit_ir # None => cli.jit_ir = GeneratedText)
    /\ [](cli.saved # None =>
            IF cli.args.opt_level > 0
            THEN /\ cli.saved # GeneratedText
                 /\ cli.saved = optimize(generate(CodeGenerator, ast),
                                         cli.args.opt_level).value
                 /\ \A f \in DOMAIN cli.saved.functions :
                        cli.saved.functions[f].passes = cli.args.opt_level
            ELSE cli.saved = GeneratedText)

\* a run at -O2 that saved the IR, built the executable and ran the program
OptimizeLeavesModuleWitness ==
    /\ cli.at = "exit"
    /\ cli.args.opt_level = 2
    /\ cli.saved # None
    /\ cli.saved.functions[1].passes = 2
    /\ cli.aot_ir = ModuleText(codegen)
    /\ cli.jit_ir = ModuleText(codegen)
    /\ cli.printed
    /\ jit.status = "returned"

(***************************************************************************)
(* The analysis of a return statement.                                     *)
(***************************************************************************)
\* C27: the analysis of a ReturnStatement is the analysis of its value: it
\* raises what the value expression raises and nothing else, so a literal of
\* any of the four types and a missing value are accepted in a function of
\* any return type, and the symbol table is left as it was.
ReturnUnchecked ==
    [][VisitsStatement /\ Visited.kind = "ReturnStatement" =>
         /\ analyzer'.symbol_table = analyzer.symbol_table
         /\ analyzer'.err = IF Visited.value = None THEN ""
                            ELSE visit_expression(analyzer, Visited.value).an.err
         /\ (Visited.value = None \/ Visited.value.kind = "Literal")
                => analyzer'.err = ""]_vars

\* a function declared to return While returned a string literal
ReturnUncheckedWitness ==
    /\ pc = At("analyze_body", 1, 2)
    /\ ast.functions[1].return_type = "While"
    /\ ast.functions[1].body = <<ReturnStatement(Literal(0, "string"))>>
    /\ analyzer.err = ""

(***************************************************************************)
(* Declarations that fail.                                                 *)
(***************************************************************************)
\* C28: a declaration that fails leaves the symbol table as it was: in
\* every state of the analysis, declaring a name the variable table holds,
\* with any type and flag, raises DuplicateDeclaration and changes neither
\* the entry nor the rest of either table, and declaring a name the function
\* table holds raises and changes neither table; a VarDeclaration statement
\* that fails as a duplicate leaves both tables as they were before it.
FailedDeclarationKeepsTable ==
    /\ [](\A name \in DOMAIN Symbols :
            \A t \in Types : \A flag \in BOOLEAN :
                /\ declare_variable(analyzer, name, t, flag, 1).err
                       = "DuplicateDeclaration"
                /\ declare_variable(analyzer, name, t, flag, 1).symbol_table
                       = analyzer.symbol_table)
    /\ [](\A name \in DOMAIN analyzer.symbol_table.functions :
            /\ declare_function(analyzer, name,
                                FunctionDef("While", name, <<xFloat>>, <<>>)).err
                   # ""
            /\ declare_function(analyzer, name,
                                FunctionDef("While", name, <<xFloat>>, <<>>))
                   .symbol_table = analyzer.symbol_table)
    /\ [][(/\ VisitsStatement
           /\ Visited.kind = "VarDeclaration"
           /\ analyzer'.err = "DuplicateDeclaration")
          => analyzer'.symbol_table = analyzer.symbol_table]_vars

\* x, declared and initialized, was declared again without initializer
FailedDeclarationWitness ==
    /\ pc.at = "semantic_error"
    /\ analyzer.err = "DuplicateDeclaration"
    /\ ast.functions[1].body = <<VarDeclaration("Float", "x", int10),
                                 VarDeclaration("Float", "x", None)>>
    /\ Symbols = DictPut(EmptyDict, "x", SymbolInfo("x", "Float", TRUE, 0))
    /\ DOMAIN analyzer.symbol_table.functions = {"side"}

(***************************************************************************)
(* The order of a declaration with initializer.                            *)
(***************************************************************************)
\* what the analysis of the initializer of the declaration visited raises
InitializerError == visit_expression(analyzer, Visited.initializer).an.err

\* C29: in a VarDeclaration the initializer is analyzed before the name is
\* declared: an initializer that reads the undeclared variable it
\* initializes fails with UndeclaredIdentifier; an error of the initializer,
\* or a mismatch of its type with the declared type, is the error reported
\* also when the name is declared already; DuplicateDeclaration is reported
\* only for an initializer that passed both checks.
InitializerFirst ==
    [][(/\ VisitsStatement
        /\ Visited.kind = "VarDeclaration"
        /\ Visited.var_type \in Types
        /\ Visited.initializer # None)
       => /\ (Visited.initializer = Identifier(Visited.name)
                /\ Visited.name \notin DOMAIN Symbols)
             => analyzer'.err = "UndeclaredIdentifier"
          /\ InitializerError # "" => analyzer'.err = InitializerError
          /\ (InitializerError = ""
                /\ ~ types_compatible(
                       Visited.var_type,
                       visit_expression(analyzer, Visited.initializer).type))
             => analyzer'.err = "TypeMismatch"
          /\ analyzer'.err = "DuplicateDeclaration"
             => /\ InitializerError = ""
                /\ Visited.name \in DOMAIN Symbols
          /\ analyzer'.err # "DuplicateDeclaration"
             => \A i \in DOMAIN analyzer'.events :
                    i > Len(analyzer.events)
                    => ~ (analyzer'.events[i].event = "declare"
                            /\ analyzer'.events[i].duplicate)]_vars

\* x is declared already and declared again with the undeclared y as
\* initializer: the error is the initializer's
InitializerFirstWitness ==
    /\ pc.at = "semantic_error"
    /\ ast.functions[1].body = <<VarDeclaration("Float", "x", int10),
                                 VarDeclaration("Float", "x", idY)>>
    /\ analyzer.err = "UndeclaredIdentifier"
    /\ "x" \in DOMAIN Symbols
    /\ analyzer.events[Len(analyzer.events)].event = "read"

(***************************************************************************)
(* The blocks of an if statement.                                          *)
(***************************************************************************)
\* the blocks of the function being generated, before and after a step
BlocksBefore == CurrentFunction(codegen).blocks

BlocksAfter == CurrentFunction(codegen').blocks

\* the last instruction of a block that has one
LastInstruction(block) == block.instructions[Len(block.instructions)]

\* block ends in an unconditional branch to target
BranchesTo(block, target) ==
    /\ Len(block.instructions) >= 1
    /\ LastInstruction(block).opcode = "br"
    /\ LastInstruction(block).targets = <<target>>

\* no statement of body opens blocks of its own
Flat(body) == \A i \in DOMAIN body : body[i].kind \notin Compound

\* body leaves its current block terminated: it returns, and no if
\* statement or loop after the return moves to a block of its own
Closed(body) ==
    \E i \in DOMAIN body :
        /\ body[i].kind = "ReturnStatement"
        /\ \A j \in DOMAIN body : j > i => body[j].kind \notin Compound

\* body returns at most once, as its last statement
ReturnsLast(body) ==
    \A i \in DOMAIN body : body[i].kind = "ReturnStatement" => i = Len(body)

\* the first terminator of a block that has one
FirstTerminator(block) ==
    block.instructions[CHOOSE i \in DOMAIN block.instructions :
                           /\ IsTerminator(block.instructions[i])
                           /\ \A j \in 1..(i - 1) :
                                  ~ IsTerminator(block.instructions[j])]

\* a branch whose body is flat ends in its own block: in the return of the
\* body, or in the branch to merge when the body does not return
BranchEnds(body, block, merge) ==
    Flat(body) =>
        /\ block.terminated
        /\ IF Closed(body)
           THEN /\ FirstTerminator(block).opcode \in {"ret", "ret void"}
                /\ \A i \in DOMAIN block.instructions :
                       block.instructions[i].opcode # "br"
           ELSE /\ BranchesTo(block, merge)
                /\ WellTerminated(block)

\* the generator translates an if statement of the function body
TranslatesIf == TranslatesStatement /\ Translated.kind = "IfStatement"

\* C30: for an if statement the generator appends the three blocks if.then,
\* if.else and if.end, with or without an else body; the block it was in
\* ends in the conditional branch to if.then and if.else; a branch whose
\* body leaves its block terminated by a return gets no branch to if.end, any
\* other branch ends in one unconditional branch to if.end; and the builder
\* is left at the end of if.end.  An if statement met in an open block whose
\* bodies are flat and return at most as their last statement is emitted
\* without error.
IfBlocks ==
    /\ [][(TranslatesIf /\ codegen'.err = "") =>
            /\ Len(BlocksAfter) >= Len(BlocksBefore) + 3
            /\ BlocksAfter[Len(BlocksBefore) + 1].name.name = "if.then"
            /\ BlocksAfter[Len(BlocksBefore) + 2].name.name = "if.else"
            /\ BlocksAfter[Len(BlocksBefore) + 3].name.name = "if.end"
            /\ LastInstruction(BlocksAfter[codegen.builder.block]).opcode = "cbr"
            /\ LastInstruction(BlocksAfter[codegen.builder.block]).targets
                   = <<Len(BlocksBefore) + 1, Len(BlocksBefore) + 2>>
            /\ codegen'.builder.block = Len(BlocksBefore) + 3
            /\ BlocksAfter[Len(BlocksBefore) + 3].instructions = <<>>
            /\ Cardinality({ b \in DOMAIN BlocksAfter :
                               BranchesTo(BlocksAfter[b], Len(BlocksBefore) + 3) })
                   = (IF Closed(Translated.then_body) THEN 0 ELSE 1)
                     + (IF Closed(Translated.else_body) THEN 0 ELSE 1)
            /\ \A b \in DOMAIN BlocksAfter :
                   \A i \in DOMAIN BlocksAfter[b].instructions :
                       (/\ BlocksAfter[b].instructions[i].opcode = "br"
                        /\ BlocksAfter[b].instructions[i].targets
                               = <<Len(BlocksBefore) + 3>>)
                       => WellTerminated(BlocksAfter[b])
            /\ BranchEnds(Translated.then_body,
                          BlocksAfter[Len(BlocksBefore) + 1],
                          Len(BlocksBefore) + 3)
            /\ BranchEnds(Translated.else_body,
                          BlocksAfter[Len(BlocksBefore) + 2],
                          Len(BlocksBefore) + 3)]_vars
    /\ [][(/\ TranslatesIf
           /\ ~ is_terminated(codegen)
           /\ Flat(Translated.then_body) /\ ReturnsLast(Translated.then_body)
           /\ Flat(Translated.else_body) /\ ReturnsLast(Translated.else_body))
          => codegen'.err = ""]_vars

\* an if statement without else body: if.else holds the branch to if.end
\* only, if.then ends in its own, and the next statement was emitted in
\* if.end
IfBlocksWitness ==
    /\ pc.at = "generated"
    /\ \E i \in DOMAIN ast.functions[1].body :
           /\ ast.functions[1].body[i].kind = "IfStatement"
           /\ ast.functions[1].body[i].else_body = <<>>
           /\ i < Len(ast.functions[1].body)
    /\ \E b \in DOMAIN CurrentFunction(codegen).blocks :
           /\ CurrentFunction(codegen).blocks[b].name.name = "if.end"
           /\ Len(CurrentFunction(codegen).blocks[b].instructions) >= 2
           /\ Len(CurrentFunction(codegen).blocks[b - 1].instructions) = 1
           /\ BranchesTo(CurrentFunction(codegen).blocks[b - 1], b)
           /\ BranchesTo(CurrentFunction(codegen).blocks[b - 2], b)
====
